---- MODULE Spec2Model ----
(***************************************************************************)
(* Facade rectification and annotation mapping.                            *)
(*                                                                         *)
(* Modelled programs:                                                      *)
(*   src/facade_rectification.py     FacadeRectifier  (variant "v1")       *)
(*   src/facade_rectification_v2.py  FacadeRectifier  (variant "v2")       *)
(*   src/map_annotation.py           AnnotationMapper                      *)
(*                                                                         *)
(* Numbers.  Clicked points are integer pixels.  Points computed by the    *)
(* programs are rationals; a point is a pair <<x, y>> of integer           *)
(* numerators and every point list carries its denominator where one is    *)
(* needed.  Homographies are 3x3 integer matrices taken up to a common     *)
(* factor (the program normalises the last entry to 1, which is the same   *)
(* matrix as a rational one).  Arithmetic is exact; the rounding of the    *)
(* float32 arithmetic of the programs is not part of the model.            *)
(***************************************************************************)
EXTENDS Integers, Sequences, FiniteSets, TLC

VARIABLES
    variant,    \* which program runs: rectifier "v1" or "v2", or "mapper"
    points,     \* self.points, the marked points in marking order
    pc,         \* position of the program: run() is "annotating", "done"
                \* (returned) or "quit"; the ordering of four points goes from
                \* "order" to "ordered"; the mapper is "mapping" or "done"
    outcome,    \* what the rectify() call of this pass of the loop did
    record,     \* the transform file on disk (NoRecord when none was written)
    mapper,     \* the AnnotationMapper built from a transform file
    call,       \* the last call made on the mapper
    result,     \* what that call returned
    output      \* the mapped annotation file on disk and the console report

vars == <<variant, points, pc, outcome, record, mapper, call, result, output>>

None == <<>>
NoRecord == [kind |-> "none"]

(***************************************************************************)
(* Small helpers                                                           *)
(***************************************************************************)
Abs(n) == IF n < 0 THEN -n ELSE n
Min2(a, b) == IF a <= b THEN a ELSE b
Max2(a, b) == IF a >= b THEN a ELSE b

RECURSIVE Gcd(_, _)
Gcd(a, b) == IF b = 0 THEN Abs(a) ELSE Gcd(b, a % Abs(b))

RECURSIVE SumX(_)
SumX(pts) == IF pts = <<>> THEN 0 ELSE Head(pts)[1] + SumX(Tail(pts))

RECURSIVE SumY(_)
SumY(pts) == IF pts = <<>> THEN 0 ELSE Head(pts)[2] + SumY(Tail(pts))

(***************************************************************************)
(* Point Classifier: order_points (v1) and order_points_simple (v2)        *)
(***************************************************************************)
\* center_x, center_y = np.mean(pts[:, 0]), np.mean(pts[:, 1]), kept as the
\* count n and the two coordinate sums: a coordinate c is compared with the
\* mean as n * c against the sum.
Center(pts) == [n |-> Len(pts), sx |-> SumX(pts), sy |-> SumY(pts)]

\* The corner a point is assigned to.
QuadrantV2(pt, c) ==
    IF c.n * pt[1] <= c.sx /\ c.n * pt[2] <= c.sy THEN "tl"
    ELSE IF c.n * pt[1] >= c.sx /\ c.n * pt[2] <= c.sy THEN "tr"
    ELSE IF c.n * pt[1] >= c.sx /\ c.n * pt[2] >= c.sy THEN "br"
    ELSE "bl"

QuadrantV1(pt, c) ==
    IF c.n * pt[1] < c.sx /\ c.n * pt[2] < c.sy THEN "tl"
    ELSE IF c.n * pt[1] >= c.sx /\ c.n * pt[2] < c.sy THEN "tr"
    ELSE IF c.n * pt[1] >= c.sx /\ c.n * pt[2] >= c.sy THEN "br"
    ELSE "bl"

Quadrant(v, pt, c) == IF v = "v1" THEN QuadrantV1(pt, c) ELSE QuadrantV2(pt, c)

\* The loop "for pt in pts": a later point assigned to a corner replaces an
\* earlier one.  The value is the last point of pts[1..k] assigned to corner q.
RECURSIVE AssignedUpTo(_, _, _, _, _)
AssignedUpTo(v, pts, c, q, k) ==
    IF k = 0 THEN None
    ELSE IF Quadrant(v, pts[k], c) = q THEN pts[k]
    ELSE AssignedUpTo(v, pts, c, q, k - 1)

QuadrantsAbout(v, pts, c) ==
    [q \in {"tl", "tr", "br", "bl"} |-> AssignedUpTo(v, pts, c, q, Len(pts))]

quadrants(v, pts) == QuadrantsAbout(v, pts, Center(pts))

\* An exception is [ok |-> FALSE, error |-> kind, count |-> numbers the message
\* reports]; a returned array is [ok |-> TRUE, quad |-> the four rows, den |-> the
\* denominator of their coordinates].  np.array([tl, tr, br, bl], dtype=np.float32): a corner left at None
\* makes the list ragged and numpy raises ValueError; otherwise the 4x2 array.
ArrayError == [ok |-> FALSE, error |-> "array", count |-> <<>>]

\* order_points with the corners left at None filled from the list as marked
order_points_as_marked(v, pts) ==
    LET qd == quadrants(v, pts)
    IN  IF \E q \in DOMAIN qd : qd[q] = None
        THEN [ok |-> TRUE, quad |-> pts, den |-> 1]
        ELSE [ok |-> TRUE, quad |-> <<qd["tl"], qd["tr"], qd["br"], qd["bl"]>>, den |-> 1]

\* order_points building an object array, which takes a None row
order_points_object_array(v, pts) ==
    LET qd == quadrants(v, pts)
    IN  [ok |-> TRUE, quad |-> <<qd["tl"], qd["tr"], qd["br"], qd["bl"]>>, den |-> 1]

order_points(v, pts) ==
    LET qd == quadrants(v, pts)
    IN  IF \E q \in DOMAIN qd : qd[q] = None
        THEN ArrayError
        ELSE [ok |-> TRUE, quad |-> <<qd["tl"], qd["tr"], qd["br"], qd["bl"]>>, den |-> 1]

(***************************************************************************)
(* Geometry shared by the corner resolvers                                 *)
(***************************************************************************)
Dist2(a, b) == (a[1] - b[1]) * (a[1] - b[1]) + (a[2] - b[2]) * (a[2] - b[2])

\* floor of the square root
ISqrt(n) == CHOOSE k \in 0..n : k * k <= n /\ (k + 1) * (k + 1) > n

Cross(a, b, c) == (b[1] - a[1]) * (c[2] - a[2]) - (b[2] - a[2]) * (c[1] - a[1])

Idx(s) == 1..Len(s)

\* pts[idxs] (numpy fancy indexing), idxs a sequence of 1-based positions
Take(pts, idxs) == [k \in Idx(idxs) |-> pts[idxs[k]]]

\* s[:n]
Prefix(s, n) == SubSeq(s, 1, Min2(n, Len(s)))

\* the members of a set of integers in ascending order (list(set(...)) of small
\* non-negative integers iterates in ascending order)
RECURSIVE Ascending(_)
Ascending(S) ==
    IF S = {} THEN <<>>
    ELSE LET m == CHOOSE x \in S : \A y \in S : x <= y
         IN  <<m>> \o Ascending(S \ {m})

\* np.argmin(pts[:, c]) and np.argmax(pts[:, c]): the first position holding the
\* extreme value of coordinate c
ArgMin(pts, c) ==
    CHOOSE i \in Idx(pts) :
        /\ \A j \in Idx(pts) : pts[i][c] <= pts[j][c]
        /\ \A j \in 1..(i - 1) : pts[j][c] > pts[i][c]

ArgMax(pts, c) ==
    CHOOSE i \in Idx(pts) :
        /\ \A j \in Idx(pts) : pts[i][c] >= pts[j][c]
        /\ \A j \in 1..(i - 1) : pts[j][c] < pts[i][c]

\* pts[np.argsort(pts[:, 1])]: insertion sort by y, equal keys keep their order
RECURSIVE InsertByY(_, _)
InsertByY(pt, sorted) ==
    IF sorted = <<>> THEN <<pt>>
    ELSE IF pt[2] < Head(sorted)[2] THEN <<pt>> \o sorted
    ELSE <<Head(sorted)>> \o InsertByY(pt, Tail(sorted))

RECURSIVE SortByY(_)
SortByY(pts) ==
    IF pts = <<>> THEN <<>>
    ELSE InsertByY(pts[Len(pts)], SortByY(SubSeq(pts, 1, Len(pts) - 1)))

(***************************************************************************)
(* scipy.spatial.ConvexHull of a 2-D point list                            *)
(***************************************************************************)
\* p lies in the (closed, possibly flat) triangle a b c
InTriangle(p, a, b, c) ==
    LET d1 == Cross(a, b, p)
        d2 == Cross(b, c, p)
        d3 == Cross(c, a, p)
    IN  /\ \/ (d1 >= 0 /\ d2 >= 0 /\ d3 >= 0)
           \/ (d1 <= 0 /\ d2 <= 0 /\ d3 <= 0)
        /\ (d1 = 0 /\ d2 = 0 /\ d3 = 0) =>
              /\ Min2(a[1], Min2(b[1], c[1])) <= p[1]
              /\ p[1] <= Max2(a[1], Max2(b[1], c[1]))
              /\ Min2(a[2], Min2(b[2], c[2])) <= p[2]
              /\ p[2] <= Max2(a[2], Max2(b[2], c[2]))

\* Qhull cannot build an initial simplex from fewer than 3 points or from
\* points on one line: QhullError
HullFails(pts) ==
    \/ Len(pts) < 3
    \/ \A i, j, k \in Idx(pts) : Cross(pts[i], pts[j], pts[k]) = 0

\* positions of the extreme points; of coincident points the first one
HullVertexSet(pts) ==
    {i \in Idx(pts) :
        /\ \A j \in 1..(i - 1) : pts[j] # pts[i]
        /\ ~ \E j, k, l \in Idx(pts) :
                /\ pts[j] # pts[i] /\ pts[k] # pts[i] /\ pts[l] # pts[i]
                /\ InTriangle(pts[i], pts[j], pts[k], pts[l])}

\* the vertex that follows vertex i counterclockwise
HullNext(pts, V, i) ==
    CHOOSE j \in V \ {i} : \A k \in V \ {i, j} : Cross(pts[i], pts[j], pts[k]) > 0

RECURSIVE HullWalk(_, _, _, _)
HullWalk(pts, V, i, n) ==
    IF n = 0 THEN <<>> ELSE <<i>> \o HullWalk(pts, V, HullNext(pts, V, i), n - 1)

\* hull.vertices: the vertex positions in counterclockwise order.  Qhull does
\* not fix which vertex comes first: every rotation is a possible value.
HullVertexOrders(pts) ==
    IF HullFails(pts) THEN {<<>>}
    ELSE LET V == HullVertexSet(pts)
         IN  {HullWalk(pts, V, i, Cardinality(V)) : i \in V}

(***************************************************************************)
(* Corner Resolver of facade_rectification_v2.py                           *)
(***************************************************************************)
DedupTolerance == 5

Err(kind, counts) == [ok |-> FALSE, error |-> kind, count |-> counts]

\* the de-duplication loop of extract_corners: a point closer than 5 px to a
\* point already kept is dropped
RECURSIVE Dedup(_, _)
Dedup(pts, unique_pts) ==
    IF pts = <<>> THEN unique_pts
    ELSE LET pt == Head(pts)
             is_duplicate ==
                 \E k \in Idx(unique_pts) :
                     Dist2(pt, unique_pts[k]) < DedupTolerance * DedupTolerance
         IN  Dedup(Tail(pts), IF is_duplicate THEN unique_pts ELSE Append(unique_pts, pt))

\* the inferred point with the offset of the second branch taken the other
\* way round
InferredV2_mirrored(top_pt, middle_pt, bottom_pt) ==
    IF top_pt[1] <= middle_pt[1]
    THEN <<top_pt[1] + (bottom_pt[1] - middle_pt[1]), top_pt[2]>>
    ELSE <<top_pt[1] - (bottom_pt[1] - middle_pt[1]), top_pt[2]>>

\* the inferred point of infer_4th_corner, from top, middle, bottom
InferredV2(top_pt, middle_pt, bottom_pt) ==
    IF top_pt[1] <= middle_pt[1]
    THEN <<top_pt[1] + (bottom_pt[1] - middle_pt[1]), top_pt[2]>>
    ELSE <<top_pt[1] - (middle_pt[1] - bottom_pt[1]), top_pt[2]>>

\* the array "corners" that infer_4th_corner hands to order_points_simple;
\* pts holds at least three points
InferenceCorners(pts) ==
    LET sorted_by_y == SortByY(pts)
        top_pt == sorted_by_y[1]
        middle_pt == sorted_by_y[2]
        bottom_pt == sorted_by_y[3]
        inferred == InferredV2(top_pt, middle_pt, bottom_pt)
    IN  IF top_pt[1] <= middle_pt[1]
        THEN <<top_pt, inferred, bottom_pt, middle_pt>>
        ELSE <<inferred, top_pt, middle_pt, bottom_pt>>

infer_4th_corner(pts) ==
    IF Len(pts) < 3 THEN Err("index", <<>>)       \* sorted_by_y[2]
    ELSE order_points("v2", InferenceCorners(pts))

\* squared lengths of the hull edges, edge i from vertex i to vertex i+1 (cyclic)
EdgeLengths2(hull_pts) ==
    [i \in Idx(hull_pts) |-> Dist2(hull_pts[i], hull_pts[(i % Len(hull_pts)) + 1])]

\* np.argsort(edge_lengths)[-4:] as a set: four edges none shorter than any edge
\* left out; equal lengths may be taken in any order
Top4Choices(lens) ==
    IF Len(lens) < 4 THEN {{}}
    ELSE {T \in SUBSET Idx(lens) :
            /\ Cardinality(T) = 4
            /\ \A t \in T : \A u \in Idx(lens) \ T : lens[u] <= lens[t]}

\* corner_candidates: for each chosen edge the entries of hull.vertices at its
\* two ends, which are positions in pts
CornerCandidates(hv, top_4_indices) ==
    {hv[idx] : idx \in top_4_indices} \cup {hv[(idx % Len(hv)) + 1] : idx \in top_4_indices}

\* selected_pts of select_best_corners on a hull of more than 4 vertices, as
\* [ok |-> TRUE, pts |-> selected_pts], or the IndexError of
\* hull_pts[list(corner_candidates)]
SelectedPts(hull_pts, hv, top_4_indices) ==
    LET corner_candidates == CornerCandidates(hv, top_4_indices)
        enough == Cardinality(corner_candidates) >= 4
    IN  IF enough /\ \E c \in corner_candidates : c > Len(hull_pts)
        THEN Err("index", <<>>)
        ELSE
        LET candidate_pts == IF enough
                             THEN Take(hull_pts, Ascending(corner_candidates))
                             ELSE hull_pts
            extreme_indices == Ascending({ArgMin(candidate_pts, 2), ArgMax(candidate_pts, 2),
                                          ArgMin(candidate_pts, 1), ArgMax(candidate_pts, 1)})
            selected == IF Len(candidate_pts) > 4
                        THEN Take(candidate_pts, extreme_indices)
                        ELSE candidate_pts
        IN  [ok |-> TRUE,
             pts |-> IF Len(selected) > 4 THEN Prefix(hull_pts, 4) ELSE selected]

\* hv is the value of hull.vertices, top_4_indices the value of the argsort slice
select_best_corners(pts, hv, top_4_indices) ==
    IF HullFails(pts) THEN Err("qhull", <<>>)
    ELSE
    LET hull_pts == Take(pts, hv)
    IN  IF Len(hull_pts) <= 4 THEN order_points("v2", Prefix(hull_pts, 4))
        ELSE
        LET selected == SelectedPts(hull_pts, hv, top_4_indices)
        IN  IF ~selected.ok THEN selected
            ELSE IF Len(selected.pts) < 4
            THEN infer_4th_corner(selected.pts)
            ELSE order_points("v2", selected.pts)

extract_corners(pts, hv, top_4_indices) ==
    LET unique_pts == Dedup(pts, <<>>)
    IN  IF Len(unique_pts) < 3 THEN Err("dedup", <<Len(unique_pts)>>)
        ELSE IF Len(unique_pts) = 4 THEN order_points("v2", unique_pts)
        ELSE IF Len(unique_pts) = 3 THEN infer_4th_corner(unique_pts)
        ELSE select_best_corners(unique_pts, hv, top_4_indices)

(***************************************************************************)
(* Corner Resolver of facade_rectification.py                              *)
(***************************************************************************)
\* the loop that keeps the first occurrence of each index
RECURSIVE UniqueInOrder(_, _)
UniqueInOrder(idxs, unique_idx) ==
    IF idxs = <<>> THEN unique_idx
    ELSE UniqueInOrder(Tail(idxs),
            IF \E k \in Idx(unique_idx) : unique_idx[k] = Head(idxs)
            THEN unique_idx ELSE Append(unique_idx, Head(idxs)))

Double(pts) == [k \in Idx(pts) |-> <<2 * pts[k][1], 2 * pts[k][2]>>]

RECURSIVE MaxY(_)
MaxY(pts) == IF Len(pts) = 1 THEN pts[1][2] ELSE Max2(Head(pts)[2], MaxY(Tail(pts)))

\* the branch "len(hull_points) == 3"; coordinates of the result are halves
InferFromHull3(pts, hull_points) ==
    LET top_idx == ArgMin(hull_points, 2)
        bottom_idx == ArgMax(hull_points, 2)
        left_idx == ArgMin(hull_points, 1)
        right_idx == ArgMax(hull_points, 1)
        top_pt == hull_points[top_idx]
        bottom_pt == hull_points[bottom_idx]
        left_pt == hull_points[left_idx]
        right_pt == hull_points[right_idx]
        unique_idx == UniqueInOrder(<<top_idx, bottom_idx, left_idx, right_idx>>, <<>>)
        unique_points == Take(hull_points, unique_idx)
        In(i) == \E k \in Idx(unique_idx) : unique_idx[k] = i
        has_top == In(top_idx)
        has_bottom == In(bottom_idx)
        has_left == In(left_idx)
        \* twice the inferred coordinates
        inferred2 ==
            IF has_top /\ has_left /\ ~has_bottom
            THEN <<left_pt[1] + right_pt[1],
                   2 * Max2(MaxY(pts), left_pt[2] + (top_pt[2] - left_pt[2]) * 2)>>
            ELSE <<left_pt[1] + right_pt[1], top_pt[2] + bottom_pt[2]>>
    IN  IF Len(unique_points) = 4 THEN order_points("v1", unique_points)
        ELSE LET r == order_points("v1", Prefix(Append(Double(unique_points), inferred2), 4))
             IN  IF r.ok THEN [r EXCEPT !.den = 2] ELSE r

ExtremeTolerance == 10

\* the de-duplication of the four extreme points (seen_positions)
RECURSIVE DedupExtremes(_, _)
DedupExtremes(pts, corners_list) ==
    IF pts = <<>> THEN corners_list
    ELSE LET pt == Head(pts)
             is_duplicate ==
                 \E k \in Idx(corners_list) :
                     /\ Abs(pt[1] - corners_list[k][1]) < ExtremeTolerance
                     /\ Abs(pt[2] - corners_list[k][2]) < ExtremeTolerance
         IN  DedupExtremes(Tail(pts),
                IF is_duplicate THEN corners_list ELSE Append(corners_list, pt))

\* corners_list of the branch "len(hull_points) > 4"
ExtremeCorners(hull_points) ==
    DedupExtremes(<<hull_points[ArgMin(hull_points, 2)], hull_points[ArgMax(hull_points, 2)],
                    hull_points[ArgMin(hull_points, 1)], hull_points[ArgMax(hull_points, 1)]>>,
                  <<>>)

\* hvs[1] is the value of hull.vertices in this call, hvs[2] in the call it makes
RECURSIVE extract_corners_from_points(_, _)
extract_corners_from_points(pts, hvs) ==
    IF Len(pts) = 4 THEN order_points("v1", pts)
    ELSE IF HullFails(pts) THEN Err("qhull", <<>>)
    ELSE
    LET hull_points == Take(pts, Head(hvs))
    IN  IF Len(hull_points) = 3 THEN InferFromHull3(pts, hull_points)
        ELSE IF Len(hull_points) > 4
        THEN LET corners_list == ExtremeCorners(hull_points)
             IN  IF Len(corners_list) < 4
                 THEN extract_corners_from_points(corners_list, Tail(hvs))
                 ELSE order_points("v1", corners_list)
        ELSE order_points("v1", Prefix(hull_points, 4))

(***************************************************************************)
(* Homography Engine: cv2.getPerspectiveTransform and the matrix product   *)
(***************************************************************************)
\* the original image (self.width, self.height)
Image == [width |-> 50, height |-> 50]

\* a 3x3 matrix is <<m11, m12, m13, m21, m22, m23, m31, m32, m33>>
Gcd3(a, b, c) == Gcd(a, Gcd(b, c))

\* the same rational matrix in lowest terms, last entry positive when not zero
Reduce(m) ==
    LET g == Gcd3(Gcd3(m[1], m[2], m[3]), Gcd3(m[4], m[5], m[6]), Gcd3(m[7], m[8], m[9]))
        sg == IF m[9] < 0 THEN -1 ELSE 1
    IN  IF g = 0 THEN m ELSE [k \in 1..9 |-> sg * (m[k] \div g)]

Mul(a, b) ==
    <<a[1]*b[1] + a[2]*b[4] + a[3]*b[7], a[1]*b[2] + a[2]*b[5] + a[3]*b[8], a[1]*b[3] + a[2]*b[6] + a[3]*b[9],
      a[4]*b[1] + a[5]*b[4] + a[6]*b[7], a[4]*b[2] + a[5]*b[5] + a[6]*b[8], a[4]*b[3] + a[5]*b[6] + a[6]*b[9],
      a[7]*b[1] + a[8]*b[4] + a[9]*b[7], a[7]*b[2] + a[8]*b[5] + a[9]*b[8], a[7]*b[3] + a[8]*b[6] + a[9]*b[9]>>

\* the adjugate, a multiple of the inverse
Adj(m) ==
    <<m[5]*m[9] - m[6]*m[8], m[3]*m[8] - m[2]*m[9], m[2]*m[6] - m[3]*m[5],
      m[6]*m[7] - m[4]*m[9], m[1]*m[9] - m[3]*m[7], m[3]*m[4] - m[1]*m[6],
      m[4]*m[8] - m[5]*m[7], m[2]*m[7] - m[1]*m[8], m[1]*m[5] - m[2]*m[4]>>

\* The solution of the 8 equations that send the unit square (0,0), (1,0), (1,1),
\* (0,1) to the four points q / den, as an integer matrix; SquareDet is the
\* determinant of the two equations for the last row.
SquareDet(q) ==
    (q[2][1] - q[3][1]) * (q[4][2] - q[3][2]) - (q[4][1] - q[3][1]) * (q[2][2] - q[3][2])

SquareTo(q, den) ==
    LET dx1 == q[2][1] - q[3][1]
        dx2 == q[4][1] - q[3][1]
        sx  == q[1][1] - q[2][1] + q[3][1] - q[4][1]
        dy1 == q[2][2] - q[3][2]
        dy2 == q[4][2] - q[3][2]
        sy  == q[1][2] - q[2][2] + q[3][2] - q[4][2]
        D   == dx1 * dy2 - dx2 * dy1
        gN  == sx * dy2 - dx2 * sy
        hN  == dx1 * sy - sx * dy1
    IN  Reduce(<<(q[2][1] - q[1][1]) * D + gN * q[2][1], (q[4][1] - q[1][1]) * D + hN * q[4][1], q[1][1] * D,
                 (q[2][2] - q[1][2]) * D + gN * q[2][2], (q[4][2] - q[1][2]) * D + hN * q[4][2], q[1][2] * D,
                 gN * den, hN * den, D * den>>)

\* three of the four points on one line
Collinear3(q) ==
    \E i, j, k \in 1..4 : i < j /\ j < k /\ Cross(q[i], q[j], q[k]) = 0

\* what the LU solve leaves when the 8x8 system is singular: all unknowns 0
SingularSolve == <<0, 0, 0, 0, 0, 0, 0, 0, 1>>

\* cv2.getPerspectiveTransform(src, dst): the matrix with last entry 1 that solves
\* the 8 equations sending src.quad / src.den to dst.quad / dst.den.  The matrix
\* is a function of the two point lists; the value kept is the pair, and
\* MatrixOf gives its entries (M.tolist()).
getPerspectiveTransform(src, dst) == [src |-> src, dst |-> dst]

\* the 8x8 system has no unique solution
SingularSystem(t) == Collinear3(t.src.quad) \/ SquareDet(t.dst.quad) = 0

MatrixOf(t) ==
    IF SingularSystem(t) THEN SingularSolve
    ELSE LET S == SquareTo(t.src.quad, t.src.den)
             T == SquareTo(t.dst.quad, t.dst.den)
             m == Reduce(Mul(T, Reduce(Adj(S))))
         IN  IF m[9] = 0 THEN SingularSolve ELSE m

\* A rational point is <<X, Y, W>>, the point (X/W, Y/W), in lowest terms with
\* W > 0; W = 0 stands for a result that is inf or nan.
Pt(x, y) == <<x, y, 1>>

ReducePt(h) ==
    LET g == Gcd3(h[1], h[2], h[3])
        sg == IF h[3] < 0 THEN -1 ELSE 1
    IN  IF h[3] = 0 \/ g = 0 THEN <<0, 0, 0>>
        ELSE <<sg * (h[1] \div g), sg * (h[2] \div g), sg * (h[3] \div g)>>

\* point = [x, y, 1]; transformed = matrix @ point; transformed / transformed[2]
\* (numpy divides by a zero scale component without raising: inf or nan)
ApplyHomography(m, p) ==
    IF p[3] = 0 THEN <<0, 0, 0>>
    ELSE ReducePt(<<m[1]*p[1] + m[2]*p[2] + m[3]*p[3],
                    m[4]*p[1] + m[5]*p[2] + m[6]*p[3],
                    m[7]*p[1] + m[8]*p[2] + m[9]*p[3]>>)

(***************************************************************************)
(* fit_rectangle and rectify (both rectifier scripts)                      *)
(***************************************************************************)
MinArea == 1000

\* twice the value of polygon_area, in units of 1 / den^2
PolygonArea2(q) ==
    Abs(  (q[1][1] * q[4][2] + q[2][1] * q[1][2] + q[3][1] * q[2][2] + q[4][1] * q[3][2])
        - (q[1][2] * q[4][1] + q[2][2] * q[1][1] + q[3][2] * q[2][1] + q[4][2] * q[3][1]))

\* area < 1000, the test that prints the warning
AreaTooSmall(q, den) == PolygonArea2(q) < 2 * MinArea * den * den

\* fit_rectangle taking the top edge alone for the target width
TargetRectangle_top_width(src) ==
    IF ~src.ok THEN src
    ELSE
    LET target_width == ISqrt(Dist2(src.quad[2], src.quad[1]) \div (src.den * src.den))
    IN  [ok |-> TRUE,
         src_points |-> src.quad,
         den |-> src.den,
         dst_points |-> <<<<0, 0>>, <<target_width, 0>>,
                          <<target_width, Image.height>>, <<0, Image.height>>>>,
         size |-> <<target_width, Image.height>>]

\* the second half of fit_rectangle: the target size and rectangle for the
\* ordered corners src (or the exception passed on)
TargetRectangle(src) ==
    IF ~src.ok THEN src
    ELSE
    LET top_width2 == Dist2(src.quad[2], src.quad[1])
        bottom_width2 == Dist2(src.quad[4], src.quad[3])
        target_width == ISqrt(Max2(top_width2, bottom_width2) \div (src.den * src.den))
    IN  [ok |-> TRUE,
         src_points |-> src.quad,
         den |-> src.den,
         dst_points |-> <<<<0, 0>>, <<target_width, 0>>,
                          <<target_width, Image.height>>, <<0, Image.height>>>>,
         size |-> <<target_width, Image.height>>]

\* A choice is what the libraries leave open in one run: hvs, the values of
\* hull.vertices (first call, nested call), top4, the argsort slice, and warp,
\* what warpPerspective does with an empty dsize.
fit_rectangle(v, pts, choice) ==
    IF Len(pts) < 3 THEN Err("need3", <<>>)
    ELSE TargetRectangle(
            IF Len(pts) = 4 THEN order_points(v, pts)
            ELSE IF v = "v1" THEN extract_corners_from_points(pts, choice.hvs)
            ELSE extract_corners(pts, choice.hvs[1], choice.top4))

\* what cv2.warpPerspective may do with a dsize of no area: raise, or fall
\* back to the size of the source image
WarpOutcomes == {"raises", "source_size"}

\* the part of rectify after fit_rectangle returned f: the transform_data written
\* and returned.  warned is the small-area warning of facade_rectification.py
\* (facade_rectification_v2.py has no such test).
TransformData(v, f, warp) ==
    IF ~f.ok THEN f
    ELSE IF f.size[1] = 0 /\ warp = "raises" THEN Err("cv2", <<>>)
    ELSE [ok |-> TRUE,
          original_size |-> <<Image.width, Image.height>>,
          rectified_size |-> f.size,
          source_points |-> f.src_points,
          den |-> f.den,
          destination_points |-> f.dst_points,
          transform_matrix |->
              getPerspectiveTransform([quad |-> f.src_points, den |-> f.den],
                                      [quad |-> f.dst_points, den |-> 1]),
          inverse_matrix |->
              getPerspectiveTransform([quad |-> f.dst_points, den |-> 1],
                                      [quad |-> f.src_points, den |-> f.den]),
          warned |-> (v = "v1" /\ AreaTooSmall(f.src_points, f.den))]

\* rectify: an exception, or the transform_data
rectify(v, pts, choice) == TransformData(v, fit_rectangle(v, pts, choice), choice.warp)

\* the choices open for a point list
Choices(v, pts) ==
    IF v = "v1"
    THEN LET nested(hv) == IF hv = <<>> \/ Len(hv) <= 4 THEN <<>>
                           ELSE ExtremeCorners(Take(pts, hv))
         IN  UNION {{[hvs |-> <<hv, hv2>>, top4 |-> {}, warp |-> w] :
                        hv2 \in HullVertexOrders(nested(hv)), w \in WarpOutcomes}
                    : hv \in HullVertexOrders(pts)}
    ELSE LET unique_pts == Dedup(pts, <<>>)
         IN  UNION {{[hvs |-> <<hv>>, top4 |-> t, warp |-> w] :
                        t \in Top4Choices(EdgeLengths2(Take(unique_pts, hv))),
                        w \in WarpOutcomes}
                    : hv \in HullVertexOrders(unique_pts)}

(***************************************************************************)
(* The interactive loop run() of the two rectifier scripts                 *)
(***************************************************************************)
MaxPoints == 4

\* the pixels the user may click
ClickPool ==
    {<<0, 0>>, <<40, 0>>, <<40, 40>>, <<0, 40>>, <<20, 20>>, <<10, 5>>, <<0, 10>>, <<2, 1>>}

NoOutcome == [kind |-> "none"]
NoMapper == [loaded |-> FALSE]
NoCall == [op |-> "none"]
NoOutput == [written |-> FALSE]

MapperIdle == mapper = NoMapper /\ call = NoCall /\ result = NoCall /\ output = NoOutput

InitRect ==
    /\ variant \in {"v1", "v2"}
    /\ points = <<>>
    /\ pc = "annotating"
    /\ outcome = NoOutcome
    /\ record = NoRecord
    /\ MapperIdle

\* on_mouse, EVENT_LBUTTONDOWN
LeftClick(p) ==
    /\ pc = "annotating"
    /\ Len(points) < MaxPoints
    /\ points' = Append(points, p)
    /\ outcome' = NoOutcome
    /\ UNCHANGED <<variant, pc, record, mapper, call, result, output>>

\* on_mouse, EVENT_RBUTTONDOWN
RightClick ==
    /\ pc = "annotating"
    /\ points' = IF points = <<>> THEN points ELSE SubSeq(points, 1, Len(points) - 1)
    /\ outcome' = NoOutcome
    /\ UNCHANGED <<variant, pc, record, mapper, call, result, output>>

\* key 'r'
KeyReset ==
    /\ pc = "annotating"
    /\ points' = <<>>
    /\ outcome' = NoOutcome
    /\ UNCHANGED <<variant, pc, record, mapper, call, result, output>>

\* key 'v' (facade_rectification.py only): shows a preview, changes nothing
KeyPreview ==
    /\ pc = "annotating"
    /\ variant = "v1"
    /\ UNCHANGED vars

\* run() writing whatever rectify() came to, an exception included
Completed_always_writes(r) ==
    /\ outcome' = [kind |-> IF r.ok THEN "ok" ELSE "error", input |-> points, value |-> r]
    /\ record' = [kind |-> "file", data |-> r]
    /\ pc' = IF r.ok THEN "done" ELSE pc

\* what run() does with the value r of rectify(): return it, or print the
\* exception and go on
Completed(r) ==
    IF r.ok
    THEN /\ outcome' = [kind |-> "ok", input |-> points, value |-> r]
         /\ record' = [kind |-> "file", data |-> r]
         /\ pc' = "done"
    ELSE /\ outcome' = [kind |-> "error", input |-> points, value |-> r]
         /\ UNCHANGED <<record, pc>>

\* key 'c': rectify(); its exception is caught, printed, and the loop goes on
KeyComplete ==
    /\ pc = "annotating"
    /\ \E choice \in Choices(variant, points) : Completed(rectify(variant, points, choice))
    /\ UNCHANGED <<variant, points, mapper, call, result, output>>

\* key 'q'
KeyQuit ==
    /\ pc = "annotating"
    /\ pc' = "quit"
    /\ UNCHANGED <<variant, points, outcome, record, mapper, call, result, output>>

NextRect ==
    \/ \E p \in ClickPool : LeftClick(p)
    \/ RightClick
    \/ KeyReset
    \/ KeyPreview
    \/ KeyComplete
    \/ KeyQuit

SpecRect == InitRect /\ [][NextRect]_vars

(***************************************************************************)
(* order_points / order_points_simple applied to four points               *)
(***************************************************************************)
GridMax == 2

GridPoints == (0..GridMax) \X (0..GridMax)

InitOrder ==
    /\ variant \in {"v1", "v2"}
    /\ points \in [1..4 -> GridPoints]
    /\ pc = "order"
    /\ outcome = NoOutcome
    /\ record = NoRecord
    /\ MapperIdle

OrderPoints ==
    /\ pc = "order"
    /\ LET r == order_points(variant, points)
       IN  outcome' = [kind |-> IF r.ok THEN "ok" ELSE "error", input |-> points, value |-> r]
    /\ pc' = "ordered"
    /\ UNCHANGED <<variant, points, record, mapper, call, result, output>>

NextOrder == OrderPoints

SpecOrder == InitOrder /\ [][NextOrder]_vars

(***************************************************************************)
(* The corner resolvers applied to point lists of any length               *)
(***************************************************************************)
MaxCloud == 6
MaxDepth == 3

\* the pixels a point list is drawn from: the vertices of a convex hexagon
\* whose topmost vertex is also its leftmost and whose lowest is also its
\* rightmost, two corners of the enclosing square, and a point inside
CornerPool ==
    <<<<20, 20>>, <<0, 0>>, <<20, 5>>, <<35, 20>>, <<40, 40>>, <<20, 35>>, <<5, 20>>,
      <<40, 0>>, <<0, 40>>>>

\* the point lists: the pool points at the chosen positions, in pool order
Clouds ==
    {Take(CornerPool, Ascending(S)) :
        S \in {T \in SUBSET Idx(CornerPool) : Cardinality(T) \in 3..MaxCloud}}

\* One activation of extract_corners_from_points on pts, with hv the value of
\* hull.vertices in it: the points it calls itself on, or the value it ends with.
Activation_on_hull_points(pts, hv) ==
    IF Len(pts) # 4 /\ ~HullFails(pts) /\ Len(hv) > 4
       /\ Len(ExtremeCorners(Take(pts, hv))) < 4
    THEN [recurse |-> TRUE, pts |-> Take(pts, hv)]
    ELSE [recurse |-> FALSE, value |-> extract_corners_from_points(pts, <<hv, <<>>>>)]

Activation(pts, hv) ==
    IF Len(pts) # 4 /\ ~HullFails(pts) /\ Len(hv) > 4
       /\ Len(ExtremeCorners(Take(pts, hv))) < 4
    THEN [recurse |-> TRUE, pts |-> ExtremeCorners(Take(pts, hv))]
    ELSE [recurse |-> FALSE, value |-> extract_corners_from_points(pts, <<hv, <<>>>>)]

\* what one activation of the corner extraction may come to on pts, over the
\* values the libraries may give: [recurse |-> TRUE, pts |-> the points it
\* calls itself on] or [recurse |-> FALSE, value |-> what it returns or
\* raises], each with hv (hull.vertices) and top4 (the argsort slice).
\* facade_rectification_v2.py has one activation only.
ActivationsOf(v, pts) ==
    IF v = "v1"
    THEN {[hv |-> hv, top4 |-> {}] @@ Activation(pts, hv) : hv \in HullVertexOrders(pts)}
    ELSE LET unique_pts == Dedup(pts, <<>>)
         IN  UNION {{[hv |-> hv, top4 |-> top4, recurse |-> FALSE,
                      value |-> extract_corners(pts, hv, top4)] :
                        top4 \in Top4Choices(EdgeLengths2(Take(unique_pts, hv)))}
                    : hv \in HullVertexOrders(unique_pts)}

\* ActivationsOf tabulated, depth by depth, over the variants and the point
\* lists an activation may be entered with: frames are those of depth
\* MaxDepth - k
RECURSIVE Tabulated(_, _, _)
Tabulated(table, frames, k) ==
    IF frames = {} THEN table
    ELSE LET rows == [f \in {"v1", "v2"} \X frames |-> ActivationsOf(f[1], f[2])] @@ table
             entered == {a.pts : a \in {x \in UNION {rows[<<"v1", pts>>] : pts \in frames} :
                                            x.recurse}}
         IN  IF k = 0 THEN rows
             ELSE Tabulated(rows, {pts \in entered : <<"v1", pts>> \notin DOMAIN rows}, k - 1)

ActivationTable == Tabulated(<<>>, Clouds, MaxDepth)

InitCorners ==
    /\ variant \in {"v1", "v2"}
    /\ points \in Clouds
    /\ pc = "resolve"
    /\ outcome = NoOutcome
    /\ record = NoRecord
    /\ MapperIdle

\* what the call ended with: r is the returned array or the exception, hv and
\* top4 the library values of the activation that ended it
Ended(r, hv, top4, depth) ==
    /\ outcome' = [kind |-> IF r.ok THEN "ok" ELSE "error", input |-> points, value |-> r,
                   hv |-> hv, top4 |-> top4, depth |-> depth]
    /\ pc' = IF r.ok THEN "returned" ELSE "raised"

\* fit_rectangle on exactly four points: order_points / order_points_simple
OrderDirectly ==
    /\ pc = "resolve"
    /\ Len(points) = 4
    /\ Ended(order_points(variant, points), <<>>, {}, 0)
    /\ UNCHANGED <<variant, points, record, mapper, call, result, output>>

\* fit_rectangle calling extract_corners_from_points / extract_corners
Enter ==
    /\ pc = "resolve"
    /\ Len(points) # 4
    /\ pc' = "extracting"
    /\ record' = [kind |-> "frame", pts |-> points, depth |-> 0]
    /\ UNCHANGED <<variant, points, outcome, mapper, call, result, output>>

\* extract_corners_from_points calling itself on corners_list
Recurse ==
    /\ pc = "extracting"
    /\ record.depth < MaxDepth
    /\ \E a \in ActivationTable[<<variant, record.pts>>] :
          /\ a.recurse
          /\ record' = [kind |-> "frame", pts |-> a.pts, depth |-> record.depth + 1]
    /\ UNCHANGED <<variant, points, pc, outcome, mapper, call, result, output>>

\* the activation returns or raises; every activation above it returns or
\* raises the same
Finish ==
    /\ pc = "extracting"
    /\ \E a \in ActivationTable[<<variant, record.pts>>] :
          /\ ~a.recurse
          /\ Ended(a.value, a.hv, a.top4, record.depth)
    /\ UNCHANGED <<variant, points, record, mapper, call, result, output>>

NextCorners ==
    \/ OrderDirectly
    \/ Enter
    \/ Recurse
    \/ Finish

SpecCorners == InitCorners /\ [][NextCorners]_vars

\* a call that was made runs on: the resolver is one synchronous call
SpecCornersLive == SpecCorners /\ WF_vars(NextCorners)

(***************************************************************************)
(* AnnotationMapper (map_annotation.py)                                    *)
(***************************************************************************)
\* __init__: the matrices and the size read from the transform file
AnnotationMapperInit(file) ==
    [loaded |-> TRUE,
     M_inv |-> MatrixOf(file.data.inverse_matrix),
     M |-> MatrixOf(file.data.transform_matrix),
     rectified_width |-> file.data.rectified_size[1],
     rectified_height |-> file.data.rectified_size[2]]

\* map_point(x, y) with (x, y) the rational point p
map_point(mp, p) == ApplyHomography(mp.M_inv, p)

\* map_rectangle taking (x1, y1) for the top-left corner as given
map_rectangle_as_given(mp, x1, y1, x2, y2) ==
    [type |-> "quadrilateral",
     points |-> <<map_point(mp, Pt(x1, y1)), map_point(mp, Pt(x2, y1)),
                  map_point(mp, Pt(x2, y2)), map_point(mp, Pt(x1, y2))>>,
     original |-> <<x1, y1, x2, y2>>]

map_rectangle(mp, x1, y1, x2, y2) ==
    LET tl == Pt(Min2(x1, x2), Min2(y1, y2))
        tr == Pt(Max2(x1, x2), Min2(y1, y2))
        br == Pt(Max2(x1, x2), Max2(y1, y2))
        bl == Pt(Min2(x1, x2), Max2(y1, y2))
    IN  [type |-> "quadrilateral",
         points |-> <<map_point(mp, tl), map_point(mp, tr), map_point(mp, br), map_point(mp, bl)>>,
         original |-> <<x1, y1, x2, y2>>]

\* 1000 * cos of j sixteenths of a turn, rounded; the sine is the cosine a
\* quarter turn earlier
Cos16 == <<1000, 924, 707, 383, 0, -383, -707, -924, -1000, -924, -707, -383, 0, 383, 707, 924>>

CosMilli(j) == Cos16[(j % 16) + 1]
SinMilli(j) == Cos16[((j + 12) % 16) + 1]

\* np.linspace(0, 2 * np.pi, num_points)[k], the end angle 2 * pi included
Angle16_endpoint(k, num_points) ==
    IF num_points = 1 THEN 0 ELSE (k * 16) \div (num_points - 1)

\* np.linspace(0, 2 * np.pi, num_points, endpoint=False)[k], in sixteenths of a
\* turn (num_points divides 16)
Angle16(k, num_points) == k * (16 \div num_points)

\* the point (center_x + radius * cos, center_y + radius * sin) at sample k
CirclePoint(center_x, center_y, radius, k, num_points) ==
    ReducePt(<<1000 * center_x + radius * CosMilli(Angle16(k, num_points)),
               1000 * center_y + radius * SinMilli(Angle16(k, num_points)),
               1000>>)

map_circle(mp, center_x, center_y, radius, num_points) ==
    [type |-> "ellipse",
     center |-> map_point(mp, Pt(center_x, center_y)),
     boundary_points |->
         [k \in 1..num_points |->
             map_point(mp, CirclePoint(center_x, center_y, radius, k - 1, num_points))],
     original |-> [center |-> <<center_x, center_y>>, radius |-> radius]]

\* map_polygon returning the mapped vertices last to first
map_polygon_reversed(mp, pts) ==
    [type |-> "polygon",
     points |-> [k \in Idx(pts) |->
                    map_point(mp, Pt(pts[Len(pts) + 1 - k][1], pts[Len(pts) + 1 - k][2]))],
     original |-> pts]

map_polygon(mp, pts) ==
    [type |-> "polygon",
     points |-> [k \in Idx(pts) |-> map_point(mp, Pt(pts[k][1], pts[k][2]))],
     original |-> pts]

DefaultNumPoints == 16

SupportedTypes == {"point", "rectangle", "circle", "polygon"}

\* One pass of the loop of map_annotation_file for a supported annotation: the
\* entry appended to mapped_annotations.  The point branch is written
\*     {**ann, 'x', self.map_point(ann['x'], ann['y']), 'mapped': True}
\* and is read here as the entry 'x': the mapped pair replaces x and there is
\* no mapped_shape.
MappedEntry(mp, ann) ==
    IF ann.type = "point"
    THEN ("x" :> map_point(mp, Pt(ann.x, ann.y))) @@ ("mapped" :> TRUE) @@ ann
    ELSE IF ann.type = "rectangle"
    THEN ("mapped_shape" :> map_rectangle(mp, ann.x1, ann.y1, ann.x2, ann.y2))
         @@ ("mapped" :> TRUE) @@ ann
    ELSE IF ann.type = "circle"
    THEN ("mapped_shape" :> map_circle(mp, ann.center_x, ann.center_y, ann.radius, DefaultNumPoints))
         @@ ("mapped" :> TRUE) @@ ann
    ELSE ("mapped_shape" :> map_polygon(mp, ann.points)) @@ ("mapped" :> TRUE) @@ ann

\* mapped_annotations after the loop over anns
RECURSIVE MappedAnnotations(_, _)
MappedAnnotations(mp, anns) ==
    IF anns = <<>> THEN <<>>
    ELSE IF Head(anns).type \in SupportedTypes
    THEN <<MappedEntry(mp, Head(anns))>> \o MappedAnnotations(mp, Tail(anns))
    ELSE MappedAnnotations(mp, Tail(anns))

\* the warnings printed, one for each annotation skipped, in order
RECURSIVE SkipWarnings(_)
SkipWarnings(anns) ==
    IF anns = <<>> THEN <<>>
    ELSE IF Head(anns).type \in SupportedTypes THEN SkipWarnings(Tail(anns))
    ELSE <<Head(anns).type>> \o SkipWarnings(Tail(anns))

\* map_annotation_file: the output file, the warnings printed, the counts
\* reported (the closing message gives the number mapped, and nothing else is
\* counted), and the return value
map_annotation_file(mp, annotations) ==
    [written |-> TRUE,
     output_data |-> [image |-> annotations.image,
                      transform_file |-> "transform.json",
                      annotations |-> MappedAnnotations(mp, annotations.annotations)],
     printed_warnings |-> SkipWarnings(annotations.annotations),
     reported |-> [mapped |-> Len(MappedAnnotations(mp, annotations.annotations))],
     returned |-> None]

(***************************************************************************)
(* The annotation mapper at work on a transform file                       *)
(***************************************************************************)
\* four marked points whose transform files the mapper is run on: a square, a
\* trapezoid, a quadrilateral with a reflex corner, and one with three corners
\* on a line
SampleQuads ==
    {<<<<0, 0>>, <<40, 0>>, <<40, 40>>, <<0, 40>>>>,
     <<<<10, 0>>, <<30, 0>>, <<40, 40>>, <<0, 40>>>>,
     <<<<0, 0>>, <<40, 0>>, <<15, 15>>, <<0, 40>>>>,
     <<<<0, 0>>, <<40, 0>>, <<40, 40>>, <<20, 20>>>>}

\* a transform file whose source quadrilateral is its destination rectangle
IdentityQuad == <<<<0, 0>>, <<50, 0>>, <<50, 50>>, <<0, 50>>>>

IdentityData ==
    TransformData("v2", [ok |-> TRUE, src_points |-> IdentityQuad, den |-> 1,
                         dst_points |-> IdentityQuad, size |-> <<50, 50>>], "raises")

NoChoice == [hvs |-> <<<<>>, <<>>>>, top4 |-> {}, warp |-> "raises"]

TransformFiles ==
    {[kind |-> "file", data |-> rectify(v, q, NoChoice)] : v \in {"v1", "v2"}, q \in SampleQuads}
        \cup {[kind |-> "file", data |-> IdentityData]}

\* coordinates handed to the mapper
ProbeCoords == {0, 8, 10, 16, 50, 100}
RectCoords == {10, 50}

\* the entries an annotation file may hold
SampleAnnotations ==
    {[type |-> "point", x |-> 10, y |-> 10],
     [type |-> "rectangle", x1 |-> 50, y1 |-> 10, x2 |-> 10, y2 |-> 50],
     [type |-> "circle", center_x |-> 20, center_y |-> 20, radius |-> 10],
     [type |-> "polygon", points |-> <<<<0, 0>>, <<10, 0>>, <<10, 10>>>>],
     [type |-> "unknown"]}

\* the vertex lists handed to map_polygon: those of the sample annotations, the
\* empty list, a single vertex, and a list that visits one vertex twice
SamplePolygons ==
    {a.points : a \in {b \in SampleAnnotations : b.type = "polygon"}}
        \cup {<<>>, <<<<50, 50>>>>, <<<<10, 10>>, <<0, 0>>, <<10, 10>>, <<50, 0>>>>}

\* the values of num_points handed to map_circle
SampleCounts == {1, 2, 4, 8, 16}

MaxAnnotations == 3

AnnotationFiles ==
    {[image |-> "facade.jpg", annotations |-> a] :
        a \in UNION {[1..n -> SampleAnnotations] : n \in 0..MaxAnnotations}}

InitMap ==
    /\ variant = "mapper"
    /\ points = <<>>
    /\ pc = "mapping"
    /\ outcome = NoOutcome
    /\ record \in TransformFiles
    /\ mapper = AnnotationMapperInit(record)
    /\ call = NoCall
    /\ result = NoCall
    /\ output = NoOutput

Returned(v) == [ok |-> TRUE, value |-> v]
TypeError == [ok |-> FALSE, error |-> "TypeError"]

\* mapper.map_point(x, y); the method takes no further argument, so a call
\* that passes a direction as well raises TypeError
MapPoint(x, y, direction) ==
    /\ pc = "mapping"
    /\ call' = [op |-> "map_point", args |-> <<x, y>>, direction |-> direction]
    /\ result' = IF direction = "none" THEN Returned(map_point(mapper, Pt(x, y)))
                 ELSE TypeError
    /\ UNCHANGED <<variant, points, pc, outcome, record, mapper, output>>

MapRectangle(x1, y1, x2, y2) ==
    /\ pc = "mapping"
    /\ call' = [op |-> "map_rectangle", args |-> <<x1, y1, x2, y2>>]
    /\ result' = Returned(map_rectangle(mapper, x1, y1, x2, y2))
    /\ UNCHANGED <<variant, points, pc, outcome, record, mapper, output>>

MapCircle(center_x, center_y, radius, num_points) ==
    /\ pc = "mapping"
    /\ call' = [op |-> "map_circle", args |-> <<center_x, center_y, radius, num_points>>]
    /\ result' = Returned(map_circle(mapper, center_x, center_y, radius, num_points))
    /\ UNCHANGED <<variant, points, pc, outcome, record, mapper, output>>

MapPolygon(pts) ==
    /\ pc = "mapping"
    /\ call' = [op |-> "map_polygon", args |-> pts]
    /\ result' = Returned(map_polygon(mapper, pts))
    /\ UNCHANGED <<variant, points, pc, outcome, record, mapper, output>>

\* main() in file mode: the mapper is constructed, map_annotation_file is its
\* one call, and the process ends
MapAnnotationFile(annotations) ==
    /\ pc = "mapping"
    /\ call = NoCall
    /\ call' = [op |-> "map_annotation_file", args |-> annotations]
    /\ result' = Returned(None)
    /\ output' = map_annotation_file(mapper, annotations)
    /\ pc' = "done"
    /\ UNCHANGED <<variant, points, outcome, record, mapper>>

NextMap ==
    \/ \E x, y \in ProbeCoords, d \in {"none", "forward", "reverse"} : MapPoint(x, y, d)
    \/ \E x1, y1, x2, y2 \in RectCoords : MapRectangle(x1, y1, x2, y2)
    \/ \E n \in SampleCounts : MapCircle(20, 20, 10, n)
    \/ \E pts \in SamplePolygons : MapPolygon(pts)
    \/ \E f \in AnnotationFiles : MapAnnotationFile(f)

SpecMap == InitMap /\ [][NextMap]_vars

(***************************************************************************)
(* The edge-intersection rectifier (facade_ortho_expert.py)                *)
(***************************************************************************)
\* the number of points run() waits for: two on each of the four edges
OrthoPoints == 8

MaxDim == 8000

\* the pixels the user may click: the corners of a 40 x 30 rectangle, so that
\* every distance between two intersections is a whole number
OrthoClickPool == {<<0, 0>>, <<40, 0>>, <<0, 30>>, <<40, 30>>}

\* int(n / d), d # 0: truncation toward zero
Trunc(n, d) ==
    IF d < 0 THEN (IF n <= 0 THEN (-n) \div (-d) ELSE -(n \div (-d)))
    ELSE IF n >= 0 THEN n \div d ELSE -((-n) \div d)

\* _get_line_intersection: None for parallel lines (and for a line given by
\* the same point twice), else the intersection, truncated
get_line_intersection(line1, line2) ==
    LET x1 == line1[1]  y1 == line1[2]  x2 == line1[3]  y2 == line1[4]
        x3 == line2[1]  y3 == line2[2]  x4 == line2[3]  y4 == line2[4]
        denom == (y4 - y3) * (x2 - x1) - (x4 - x3) * (y2 - y1)
        ua_num == (x4 - x3) * (y1 - y3) - (y4 - y3) * (x1 - x3)
    IN  IF denom = 0 THEN None
        ELSE <<Trunc(x1 * denom + ua_num * (x2 - x1), denom),
               Trunc(y1 * denom + ua_num * (y2 - y1), denom)>>

\* the line through two marked points
LineOf(pts, k) == <<pts[k][1], pts[k][2], pts[k + 1][1], pts[k + 1][2]>>

\* tl, tr, br, bl: the intersections of the top, bottom, left, right lines
OrthoCorners(pts) ==
    <<get_line_intersection(LineOf(pts, 1), LineOf(pts, 5)),
      get_line_intersection(LineOf(pts, 1), LineOf(pts, 7)),
      get_line_intersection(LineOf(pts, 3), LineOf(pts, 7)),
      get_line_intersection(LineOf(pts, 3), LineOf(pts, 5))>>

\* dist(p1, p2)
dist(p1, p2) == ISqrt(Dist2(p1, p2))

\* a value scaled down by f = max_dim / max(w_val, h_val): value and largest
\* are fractions [n, d]
ScaledDown(value, largest) ==
    (value.n * MaxDim * largest.d) \div (value.d * largest.n)

\* (w, h) for the corners q = <<tl, tr, br, bl>>: scale = 1.5, the width is
\* the larger of the two widths, the height the mean of the two heights
\* times the aspect w_max / w_min; both are cut down to max_dim when one
\* is larger, and truncated
OrthoSize(q) ==
    LET w_max == Max2(dist(q[1], q[2]), dist(q[4], q[3]))
        w_min == Min2(dist(q[1], q[2]), dist(q[4], q[3]))
        heights == dist(q[1], q[4]) + dist(q[2], q[3])
        w_val == [n |-> 3 * w_max, d |-> 2]
        h_val == IF w_min > 0 THEN [n |-> 3 * heights * w_max, d |-> 4 * w_min]
                 ELSE [n |-> 3 * heights, d |-> 4]
        largest == IF w_val.n * h_val.d >= h_val.n * w_val.d THEN w_val ELSE h_val
    IN  IF largest.n > MaxDim * largest.d
        THEN <<ScaledDown(w_val, largest), ScaledDown(h_val, largest)>>
        ELSE <<w_val.n \div w_val.d, h_val.n \div h_val.d>>

\* dst_pts for the size (w, h)
OrthoRectangle(size) ==
    <<<<0, 0>>, <<size[1] - 1, 0>>, <<size[1] - 1, size[2] - 1>>, <<0, size[2] - 1>>>>

\* the part of run() after the loop: an exception, or the transform_data
\* written.  A missing intersection makes np.array(..., dtype="float32") raise.
OrthoTransformData(pts, warp) ==
    LET q == OrthoCorners(pts)
    IN  IF \E k \in 1..4 : q[k] = None THEN ArrayError
        ELSE IF OrthoSize(q)[1] * OrthoSize(q)[2] = 0 /\ warp = "raises" THEN Err("cv2", <<>>)
        ELSE [ok |-> TRUE,
              image |-> "facade.jpg",
              output_size |-> OrthoSize(q),
              matrix |-> getPerspectiveTransform([quad |-> q, den |-> 1],
                             [quad |-> OrthoRectangle(OrthoSize(q)), den |-> 1]),
              inverse_matrix |-> getPerspectiveTransform(
                             [quad |-> OrthoRectangle(OrthoSize(q)), den |-> 1],
                             [quad |-> q, den |-> 1]),
              source_pts |-> q]

InitOrtho ==
    /\ variant = "ortho"
    /\ points = <<>>
    /\ pc = "marking"
    /\ outcome = NoOutcome
    /\ record = NoRecord
    /\ MapperIdle

\* _mouse_callback, EVENT_LBUTTONDOWN, appending whatever the length
OrthoLeftClick_unbounded(p) ==
    /\ pc = "marking"
    /\ points' = Append(points, p)
    /\ UNCHANGED <<variant, pc, outcome, record, mapper, call, result, output>>

\* _mouse_callback, EVENT_LBUTTONDOWN: a click on a full list is ignored
OrthoLeftClick(p) ==
    /\ pc = "marking"
    /\ points' = IF Len(points) < OrthoPoints THEN Append(points, p) ELSE points
    /\ UNCHANGED <<variant, pc, outcome, record, mapper, call, result, output>>

\* _mouse_callback, EVENT_RBUTTONDOWN: a click on an empty list is ignored
OrthoRightClick ==
    /\ pc = "marking"
    /\ points' = IF points # <<>> THEN SubSeq(points, 1, Len(points) - 1) ELSE points
    /\ UNCHANGED <<variant, pc, outcome, record, mapper, call, result, output>>

\* what the process comes to with the value r of the computation: the file
\* written, or the uncaught exception
OrthoCompleted(r) ==
    IF r.ok
    THEN /\ outcome' = [kind |-> "ok", input |-> points, value |-> r]
         /\ record' = [kind |-> "file", data |-> r]
         /\ pc' = "done"
    ELSE /\ outcome' = [kind |-> "error", input |-> points, value |-> r]
         /\ record' = record
         /\ pc' = "crashed"

\* key 'c', taken only when all the points are marked
OrthoKeyComplete ==
    /\ pc = "marking"
    /\ Len(points) = OrthoPoints
    /\ \E warp \in WarpOutcomes : OrthoCompleted(OrthoTransformData(points, warp))
    /\ UNCHANGED <<variant, points, mapper, call, result, output>>

\* key 'q'
OrthoKeyQuit ==
    /\ pc = "marking"
    /\ pc' = "quit"
    /\ UNCHANGED <<variant, points, outcome, record, mapper, call, result, output>>

NextOrtho ==
    \/ \E p \in OrthoClickPool : OrthoLeftClick(p)
    \/ OrthoRightClick
    \/ OrthoKeyComplete
    \/ OrthoKeyQuit

SpecOrtho == InitOrtho /\ [][NextOrtho]_vars

\* the three rectifier scripts side by side
InitRectifiers == InitRect \/ InitOrtho

NextRectifiers == NextRect \/ NextOrtho

SpecRectifiers == InitRectifiers /\ [][NextRectifiers]_vars

(***************************************************************************)
(* AnnotationMapper.__init__ on a transform file of any content            *)
(***************************************************************************)
\* A matrix field of the JSON file is [kind |-> "rows", rows |-> ...], a list
\* of lists of numbers, or [kind |-> "text"], a value with an entry that is
\* no number.
JsonRows(m) == [kind |-> "rows",
                rows |-> <<<<m[1], m[2], m[3]>>, <<m[4], m[5], m[6]>>, <<m[7], m[8], m[9]>>>>]

KeyError(key) == [ok |-> FALSE, error |-> "KeyError", key |-> key]
ValueError == [ok |-> FALSE, error |-> "ValueError"]
IndexError == [ok |-> FALSE, error |-> "IndexError"]

\* np.array(v, dtype=np.float32): ValueError for an entry that is no number
\* and for rows of different lengths, else the array with its shape
np_array(v) ==
    IF v.kind = "text" THEN ValueError
    ELSE IF \E i, j \in Idx(v.rows) : Len(v.rows[i]) # Len(v.rows[j]) THEN ValueError
    ELSE [ok |-> TRUE,
          shape |-> <<Len(v.rows), IF v.rows = <<>> THEN 0 ELSE Len(v.rows[1])>>,
          rows |-> v.rows]

\* __init__ on the JSON object data: the first exception raised, or the mapper
AnnotationMapperLoad(data) ==
    IF "inverse_matrix" \notin DOMAIN data THEN KeyError("inverse_matrix")
    ELSE IF ~np_array(data["inverse_matrix"]).ok THEN ValueError
    ELSE IF "transform_matrix" \notin DOMAIN data THEN KeyError("transform_matrix")
    ELSE IF ~np_array(data["transform_matrix"]).ok THEN ValueError
    ELSE IF "rectified_size" \notin DOMAIN data THEN KeyError("rectified_size")
    ELSE IF "width" \notin DOMAIN data["rectified_size"] THEN KeyError("width")
    ELSE IF "height" \notin DOMAIN data["rectified_size"] THEN KeyError("height")
    ELSE [ok |-> TRUE,
          mapper |-> [loaded |-> TRUE,
                      M_inv |-> np_array(data["inverse_matrix"]),
                      M |-> np_array(data["transform_matrix"]),
                      rectified_width |-> data["rectified_size"]["width"],
                      rectified_height |-> data["rectified_size"]["height"]]]

\* map_point on a mapper whose M_inv has any shape: the product with the 3x1
\* point needs 3 columns, transformed[2, 0] needs 3 rows, and rows past the
\* third are not looked at
map_point_array(mp, p) ==
    IF mp.M_inv.shape[2] # 3 THEN ValueError
    ELSE IF mp.M_inv.shape[1] < 3 THEN IndexError
    ELSE Returned(ApplyHomography(mp.M_inv.rows[1] \o mp.M_inv.rows[2] \o mp.M_inv.rows[3], p))

\* the matrices of a transform file written by rectify()
SampleMatrices ==
    [inverse_matrix |-> JsonRows(MatrixOf(IdentityData.inverse_matrix)),
     transform_matrix |-> JsonRows(MatrixOf(IdentityData.transform_matrix))]

\* matrix values that are no 3x3 list of numbers: 2x2, 4x3, rows of different
\* lengths, text
MalformedMatrices ==
    {[kind |-> "rows", rows |-> <<<<1, 0>>, <<0, 1>>>>],
     [kind |-> "rows", rows |-> <<<<1, 0, 0>>, <<0, 1, 0>>, <<0, 0, 1>>, <<0, 0, 0>>>>],
     [kind |-> "rows", rows |-> <<<<1, 0, 0>>, <<0, 1>>, <<0, 0, 1>>>>],
     [kind |-> "text"]}

\* the ways a field may be present, absent or malformed: a set of functions,
\* each holding the field or nothing
FieldOptions(key, good, others) ==
    {<<>>} \cup {key :> v : v \in {good} \cup others}

SizeOptions ==
    FieldOptions("rectified_size", [width |-> 50, height |-> 50],
                 {[width |-> 50], [height |-> 50]})

\* the JSON objects handed to __init__
LoadFiles ==
    {a @@ b @@ c :
        a \in FieldOptions("inverse_matrix", SampleMatrices.inverse_matrix, MalformedMatrices),
        b \in FieldOptions("transform_matrix", SampleMatrices.transform_matrix, MalformedMatrices),
        c \in SizeOptions}

InitLoad ==
    /\ variant = "mapper"
    /\ points = <<>>
    /\ pc = "loading"
    /\ outcome = NoOutcome
    /\ record \in {[kind |-> "file", data |-> f] : f \in LoadFiles}
    /\ mapper = NoMapper
    /\ call = NoCall
    /\ result = NoCall
    /\ output = NoOutput

\* main: mapper = AnnotationMapper(args.transform); an exception ends the process
Load ==
    /\ pc = "loading"
    /\ LET r == AnnotationMapperLoad(record.data)
       IN  IF r.ok
           THEN /\ mapper' = r.mapper
                /\ outcome' = [kind |-> "ok"]
                /\ pc' = "loaded"
           ELSE /\ mapper' = mapper
                /\ outcome' = [kind |-> "error", value |-> r]
                /\ pc' = "crashed"
    /\ UNCHANGED <<variant, points, record, call, result, output>>

\* main, point mode, on the mapper loaded
LoadedMapPoint(x, y) ==
    /\ pc = "loaded"
    /\ call' = [op |-> "map_point", args |-> <<x, y>>]
    /\ result' = map_point_array(mapper, Pt(x, y))
    /\ UNCHANGED <<variant, points, pc, outcome, record, mapper, output>>

NextLoad ==
    \/ Load
    \/ \E x, y \in RectCoords : LoadedMapPoint(x, y)

SpecLoad == InitLoad /\ [][NextLoad]_vars

(***************************************************************************)
(* The transform file as written by the rectifiers and read by the mapper  *)
(***************************************************************************)
\* M.tolist(): three rows of three numbers.  The number at row i, column j
\* is kept as the homography it is an entry of and its place.
tolist(t) ==
    [kind |-> "rows",
     rows |-> [i \in 1..3 |-> [j \in 1..3 |-> [entry_of |-> t, at |-> <<i, j>>]]]]

\* json.dump(transform_data, f) and json.load(f) after it: the JSON object a
\* later run finds in the file that script v wrote from data
TransformJson(v, data) ==
    IF v = "ortho"
    THEN [image |-> data.image,
          output_size |-> data.output_size,
          matrix |-> tolist(data.matrix),
          inverse_matrix |-> tolist(data.inverse_matrix),
          source_pts |-> data.source_pts]
    ELSE [source_image |-> "facade.jpg",
          rectified_image |-> "facade_rectified.jpg",
          original_size |-> [width |-> data.original_size[1],
                             height |-> data.original_size[2]],
          rectified_size |-> [width |-> data.rectified_size[1],
                              height |-> data.rectified_size[2]],
          source_points |-> data.source_points,
          destination_points |-> data.destination_points,
          transform_matrix |-> tolist(data.transform_matrix),
          inverse_matrix |-> tolist(data.inverse_matrix)]

(***************************************************************************)
(* The demo API (api/index.py)                                             *)
(***************************************************************************)
\* A path is a sequence of segments; a segment is a piece of fixed text or
\* a name made from a case id, f"{case_id}{suffix}".  An empty segment at
\* the head of a path stands for a leading slash.
Seg(text) == [id |-> "", suffix |-> text]
Name(case_id, suffix) == [id |-> case_id, suffix |-> suffix]

\* a URL: base is the scheme and host prefix, "" for a URL relative to the server
Url(base, path) == [base |-> base, path |-> path]

DEMO_DATA_URL_PREFIX == <<Seg("demo_data")>>
THUMB_URL_PREFIX == <<Seg("thumb")>>
VIEWPORT_URL_PREFIX == <<Seg("viewport")>>

\* path.lstrip("/")
RECURSIVE LStrip(_)
LStrip(path) ==
    IF path # <<>> /\ Head(path) = Seg("") THEN LStrip(Tail(path)) ELSE path

demo_original_filename(case_id) == <<Name(case_id, ".JPG")>>

\* _demo_base, with oss the value of DEMO_DATA_OSS_BASE
demo_base(oss, path) ==
    IF oss # "" THEN Url(oss, LStrip(path)) ELSE Url("", LStrip(path))

demo_asset_url(oss, relative_path) ==
    IF oss # "" THEN demo_base(oss, <<Seg("demo_data")>> \o LStrip(relative_path))
    ELSE Url("", DEMO_DATA_URL_PREFIX \o LStrip(relative_path))

demo_thumbnail_url(oss, case_id) ==
    IF oss # "" THEN demo_base(oss, <<Seg("thumb"), Seg("orig"), Name(case_id, ".jpg")>>)
    ELSE Url("", THUMB_URL_PREFIX \o <<Seg("orig"), Name(case_id, ".jpg")>>)

demo_ortho_preview_url(oss, case_id) == demo_asset_url(oss, <<Name(case_id, "_ortho.jpg")>>)

demo_viewport_original_url(oss, case_id) ==
    IF oss # "" THEN demo_base(oss, <<Seg("viewport"), Name(case_id, ""), Seg("original")>>)
    ELSE Url("", VIEWPORT_URL_PREFIX \o <<Name(case_id, ""), Seg("original")>>)

demo_viewport_ortho_url(oss, case_id) ==
    IF oss # "" THEN demo_base(oss, <<Seg("viewport"), Name(case_id, ""), Seg("ortho")>>)
    ELSE Url("", VIEWPORT_URL_PREFIX \o <<Name(case_id, ""), Seg("ortho")>>)

\* env is what the server runs on: oss (DEMO_DATA_OSS_BASE), demo_dir
\* (DEMO_DATA_DIR exists) and files, which gives for a case id the state of
\* its json ("absent", "corrupt" or "shapes"), and whether its ortho and
\* original images exist.
HasFile(env, case_id, kind) ==
    env.demo_dir /\ case_id \in DOMAIN env.files /\ env.files[case_id][kind]

JsonOf(env, case_id) ==
    IF env.demo_dir /\ case_id \in DOMAIN env.files THEN env.files[case_id].json ELSE "absent"

\* the size of every demo image, as [width, height]
DemoImageSize == <<64, 32>>

\* dims.get(case_id, {}).get(kind)
image_size(env, case_id, kind) ==
    IF HasFile(env, case_id, kind) THEN DemoImageSize ELSE None

Facade(env, case_id, label) ==
    [id |-> case_id,
     label |-> label,
     thumbnail |-> demo_thumbnail_url(env.oss, case_id),
     ortho_image |-> demo_ortho_preview_url(env.oss, case_id),
     original_image |-> demo_asset_url(env.oss, demo_original_filename(case_id)),
     viewport_original_url |-> demo_viewport_original_url(env.oss, case_id),
     viewport_ortho_url |-> demo_viewport_ortho_url(env.oss, case_id),
     ortho_dims |-> image_size(env, case_id, "ortho"),
     original_dims |-> image_size(env, case_id, "original")]

JsonResponse(body) == [status |-> 200, kind |-> "json", body |-> body]
HtmlResponse == [status |-> 200, kind |-> "html"]
HTTPException(status) == [status |-> status, kind |-> "error"]

\* get_cases: one building with its three facades
get_cases(env) ==
    JsonResponse(
        <<[id |-> "BUILDING_001",
           name |-> "Demo Building",
           facades |-> <<Facade(env, "IMG_1397", "north"),
                         Facade(env, "IMG_1398", "west"),
                         Facade(env, "IMG_1399", "south")>>,
           step1_info |-> [structure |-> "RC Frame", year |-> "1995-2005",
                           use |-> "Commercial/Office", area_est |-> "2400 m2"],
           step3_info |-> [bays |-> 6, symmetry |-> "High",
                           kitchen_est |-> "North side columns",
                           bedroom_est |-> "South facing bays"]]>>)

\* the words that the labels of the demo annotations contain
WordsIn ==
    [window |-> {"window"}, window_ac |-> {"window", "ac"}, ac |-> {"ac"},
     door |-> {"door"}, wall |-> {}]

\* word in label
Contains(label, word) == word \in WordsIn[label]

\* the shapes of a demo annotation file that parses
SampleShapes ==
    <<[label |-> "window", points |-> <<<<0, 0>>, <<10, 0>>, <<10, 10>>, <<0, 10>>>>],
      [label |-> "window_ac", points |-> <<<<20, 4>>, <<26, 4>>, <<26, 8>>>>],
      [label |-> "door", points |-> <<>>],
      [label |-> "wall", points |-> <<<<30, 0>>, <<40, 20>>>>]>>

\* pts.min(axis=0)[c], pts.max(axis=0)[c]
MinCoord(pts, c) == CHOOSE m \in {pts[k][c] : k \in Idx(pts)} : \A k \in Idx(pts) : m <= pts[k][c]
MaxCoord(pts, c) == CHOOSE m \in {pts[k][c] : k \in Idx(pts)} : \A k \in Idx(pts) : m >= pts[k][c]

\* the shapes that have points, in order
RECURSIVE WithPoints(_)
WithPoints(shapes) ==
    IF shapes = <<>> THEN <<>>
    ELSE IF Head(shapes).points = <<>> THEN WithPoints(Tail(shapes))
    ELSE <<Head(shapes)>> \o WithPoints(Tail(shapes))

\* [label, x_min, y_min, w, h] of each shape that has points
BoundingBoxes(shapes) ==
    [k \in Idx(WithPoints(shapes)) |->
        LET shape == WithPoints(shapes)[k]
        IN  [label |-> shape.label,
             x |-> MinCoord(shape.points, 1),
             y |-> MinCoord(shape.points, 2),
             w |-> MaxCoord(shape.points, 1) - MinCoord(shape.points, 1),
             h |-> MaxCoord(shape.points, 2) - MinCoord(shape.points, 2)]]

\* the counter a label is added to
CountedAs(label) ==
    IF Contains(label, "window") THEN "window"
    ELSE IF Contains(label, "ac") THEN "ac"
    ELSE IF Contains(label, "door") THEN "door"
    ELSE "other"

Counts(shapes) ==
    [c \in {"window", "ac", "door", "other"} |->
        Cardinality({k \in Idx(WithPoints(shapes)) : CountedAs(WithPoints(shapes)[k].label) = c})]

MaskPolygons(shapes) ==
    [k \in Idx(shapes) |->
        [label |-> shapes[k].label, points |-> shapes[k].points, shape_type |-> "polygon"]]

\* analyze_demo for the form field case_id
analyze_demo(env, case_id) ==
    IF ~env.demo_dir THEN HTTPException(500)
    ELSE IF JsonOf(env, case_id) = "absent" THEN HTTPException(404)
    ELSE IF ~HasFile(env, case_id, "ortho") THEN HTTPException(404)
    ELSE IF JsonOf(env, case_id) = "corrupt" THEN HTTPException(500)
    ELSE JsonResponse(
            [status |-> "success",
             risk_report |-> [boxes |-> BoundingBoxes(SampleShapes), dims |-> DemoImageSize],
             counts |-> Counts(SampleShapes),
             masks |-> MaskPolygons(SampleShapes),
             images |-> [original |-> demo_asset_url(env.oss, demo_original_filename(case_id)),
                         processed |-> demo_asset_url(env.oss, <<Name(case_id, "_ortho.jpg")>>)],
             debug |-> [boxes_count |-> Len(BoundingBoxes(SampleShapes)),
                        image_dims |-> DemoImageSize,
                        raw_boxes |-> BoundingBoxes(SampleShapes)]])

\* A file-system path is a sequence of names: an absolute path holds the
\* names from the file-system root; the path of a request holds the texts
\* between its slashes, an empty first text standing for a leading slash.
REPO_ROOT == <<"srv", "app">>
PUBLIC_DIR == REPO_ROOT \o <<"public">>
FRONTEND_DIST_DIR == REPO_ROOT \o <<"frontend", "dist">>

\* the texts of a request path
Texts(full_path) == [k \in Idx(full_path) |-> full_path[k].suffix]

\* rel.lstrip("/")
RECURSIVE lstrip(_)
lstrip(rel) == IF rel # <<>> /\ Head(rel) = "" THEN lstrip(Tail(rel)) ELSE rel

\* root / rel (pathlib): a rel that starts with a slash replaces root
Join(root, rel) == IF rel # <<>> /\ Head(rel) = "" THEN lstrip(rel) ELSE root \o rel

\* Path.resolve() where no name is a symbolic link: "" and "." are dropped,
\* ".." drops the name before it and stays at the file-system root
RECURSIVE resolve_from(_, _)
resolve_from(done, rest) ==
    IF rest = <<>> THEN done
    ELSE IF Head(rest) \in {"", "."} THEN resolve_from(done, Tail(rest))
    ELSE IF Head(rest) = ".."
    THEN resolve_from(IF done = <<>> THEN done ELSE SubSeq(done, 1, Len(done) - 1),
                      Tail(rest))
    ELSE resolve_from(Append(done, Head(rest)), Tail(rest))

resolve(path) == resolve_from(<<>>, path)

\* candidate.relative_to(root) does not raise
IsUnder(candidate, root) ==
    Len(candidate) >= Len(root) /\ SubSeq(candidate, 1, Len(root)) = root

\* the files on the disk of the server, kept in env.disk as a set of
\* absolute paths; the directories are those that lead to a file, and
\* PUBLIC_DIR
Directories(disk) ==
    UNION {{SubSeq(f, 1, n) : n \in 0..(Len(f) - 1)} :
              f \in disk \cup {PUBLIC_DIR \o <<"index.html">>}}

\* the file the operating system opens for path, or None: ".." is followed
\* from a directory that exists
RECURSIVE Opened(_, _, _)
Opened(disk, at, rest) ==
    IF at \notin Directories(disk) \cup disk THEN None
    ELSE IF rest = <<>> THEN (IF at \in disk THEN at ELSE None)
    ELSE IF at \notin Directories(disk) THEN None
    ELSE IF Head(rest) \in {"", "."} THEN Opened(disk, at, Tail(rest))
    ELSE IF Head(rest) = ".."
    THEN Opened(disk, IF at = <<>> THEN at ELSE SubSeq(at, 1, Len(at) - 1), Tail(rest))
    ELSE Opened(disk, Append(at, Head(rest)), Tail(rest))

\* path.is_file() / path.exists() of a file path
is_file(disk, path) == Opened(disk, <<>>, path) # None

\* FileResponse(str(path)): the file sent is the one the operating system opens
FileResponse(disk, path) ==
    [status |-> 200, kind |-> "file", file |-> Opened(disk, <<>>, path)]

\* root: the frontend entry point
root(env) ==
    IF is_file(env.disk, FRONTEND_DIST_DIR \o <<"index.html">>)
    THEN FileResponse(env.disk, FRONTEND_DIST_DIR \o <<"index.html">>)
    ELSE IF is_file(env.disk, PUBLIC_DIR \o <<"index.html">>)
    THEN FileResponse(env.disk, PUBLIC_DIR \o <<"index.html">>)
    ELSE HtmlResponse

\* _safe_resolve_under
safe_resolve_under(fsroot, rel) ==
    LET candidate == resolve(fsroot \o lstrip(rel))
    IN  IF IsUnder(candidate, fsroot) THEN [ok |-> TRUE, path |-> candidate]
        ELSE [ok |-> FALSE, response |-> HTTPException(400)]

\* spa_fallback: the catch-all GET route
spa_fallback(env, full_path) ==
    IF Head(full_path) \in {Seg("api"), Seg("demo_data")} /\ Len(full_path) > 1
    THEN HTTPException(404)
    ELSE IF ~is_file(env.disk, FRONTEND_DIST_DIR \o <<"index.html">>)
    THEN LET legacy == Join(PUBLIC_DIR, Texts(full_path))
         IN  IF is_file(env.disk, legacy) THEN FileResponse(env.disk, legacy)
             ELSE root(env)
    ELSE LET candidate == safe_resolve_under(FRONTEND_DIST_DIR, Texts(full_path))
         IN  IF ~candidate.ok THEN candidate.response
             ELSE IF is_file(env.disk, candidate.path)
             THEN FileResponse(env.disk, candidate.path)
             ELSE FileResponse(env.disk, FRONTEND_DIST_DIR \o <<"index.html">>)

\* the routes of the application, in the order they are registered: the
\* answer to a request [method, path, case_id]
Route(env, req) ==
    IF req.path = <<Seg("api"), Seg("cases")>>
    THEN IF req.method = "GET" THEN get_cases(env) ELSE HTTPException(405)
    ELSE IF req.path = <<Seg("api"), Seg("analyze_demo")>>
    THEN IF req.method = "POST" THEN analyze_demo(env, req.case_id) ELSE spa_fallback(env, req.path)
    ELSE IF req.method = "GET" THEN spa_fallback(env, req.path)
    ELSE HTTPException(405)

\* the case ids that may have files in DEMO_DATA_DIR
CaseIds == {"IMG_1397", "CASE_001"}

FileStates == [json : {"absent", "corrupt", "shapes"}, ortho : BOOLEAN, original : BOOLEAN]

\* the files of a built frontend, of the legacy pages, and files that are
\* neither under FRONTEND_DIST_DIR nor under PUBLIC_DIR
BuiltFiles == {FRONTEND_DIST_DIR \o <<"index.html">>, FRONTEND_DIST_DIR \o <<"assets", "app.js">>}
LegacyFiles == {PUBLIC_DIR \o <<"index.html">>}
OtherFiles == {REPO_ROOT \o <<"api", "index.py">>, <<"etc", "passwd">>}

Disks == {OtherFiles \cup b \cup l : b \in {{}, BuiltFiles}, l \in {{}, LegacyFiles}}

\* the demo files vary on a server with neither frontend, the frontend
\* files on a server with every demo file
Envs ==
    {e \in [oss : {"", "https://cdn.example.com"}, demo_dir : BOOLEAN,
            files : [CaseIds -> FileStates], disk : Disks] :
        \/ e.disk = OtherFiles
        \/ e.files = [c \in CaseIds |-> [json |-> "shapes", ortho |-> TRUE, original |-> TRUE]]}

\* the paths requested: those of the repository's test and of the API
ApiPaths ==
    {<<Seg("cases")>>, <<Seg("analyze_demo")>>,
     <<Seg("api"), Seg("cases")>>, <<Seg("api"), Seg("analyze_demo")>>,
     <<Seg("api"), Seg("missing")>>}

\* files of the frontend, and paths that lead out of the served directory
FilePaths ==
    {<<Seg("index.html")>>, <<Seg("assets"), Seg("app.js")>>,
     <<Seg("assets"), Seg(".."), Seg("index.html")>>,
     <<Seg(".."), Seg("api"), Seg("index.py")>>,
     <<Seg(".."), Seg(".."), Seg("api"), Seg("index.py")>>,
     <<Seg(""), Seg("etc"), Seg("passwd")>>}

SamplePaths == ApiPaths \cup FilePaths

InitApi ==
    /\ variant = "api"
    /\ points = <<>>
    /\ pc = "serving"
    /\ outcome = NoOutcome
    /\ record \in {[kind |-> "server", env |-> e] : e \in Envs}
    /\ MapperIdle

\* a GET request
Get(path) ==
    /\ pc = "serving"
    /\ call' = [method |-> "GET", path |-> path]
    /\ result' = Route(record.env, [method |-> "GET", path |-> path])
    /\ UNCHANGED <<variant, points, pc, outcome, record, mapper, output>>

\* a POST request with the form field case_id
Post(path, case_id) ==
    /\ pc = "serving"
    /\ call' = [method |-> "POST", path |-> path, case_id |-> case_id]
    /\ result' = Route(record.env, [method |-> "POST", path |-> path, case_id |-> case_id])
    /\ UNCHANGED <<variant, points, pc, outcome, record, mapper, output>>

NextApi ==
    \/ \E path \in SamplePaths : Get(path)
    \/ \E path \in ApiPaths, case_id \in CaseIds \cup {"IMG_1399"} : Post(path, case_id)

SpecApi == InitApi /\ [][NextApi]_vars

(***************************************************************************)
(* Properties                                                              *)
(***************************************************************************)
Perms4 == {f \in [1..4 -> 1..4] : \A i, j \in 1..4 : f[i] = f[j] => i = j}

Permuted(pts, f) == [k \in 1..4 |-> pts[f[k]]]

\* two of the four points are assigned to the same corner
SharedQuadrant(v, pts) ==
    \E i, j \in 1..4 :
        i < j /\ Quadrant(v, pts[i], Center(pts)) = Quadrant(v, pts[j], Center(pts))

Det3(m) ==
    m[1] * (m[5]*m[9] - m[6]*m[8]) - m[2] * (m[4]*m[9] - m[6]*m[7]) + m[3] * (m[4]*m[8] - m[5]*m[7])

Invertible(m) == Det3(m) # 0

\* (x, y) lies in the rectified image of the mapper
InRectified(mp, x, y) ==
    0 <= x /\ x <= mp.rectified_width /\ 0 <= y /\ y <= mp.rectified_height

\* the homogeneous scale component of matrix @ [x, y, 1]
Scale(m, x, y) == m[7] * x + m[8] * y + m[9]

\* C2: ordering four points gives the same result (the same TL/TR/BR/BL
\* assignment, or the same failure) whatever the order in which the four points
\* were marked.
C2_OrderInvariance ==
    pc = "ordered" =>
        \A f \in Perms4 : order_points(variant, Permuted(points, f)) = outcome.value

\* C2 witness: four points marked in an order other than TL, TR, BR, BL were
\* ordered into a quadrilateral.
C2_Witness ==
    pc = "ordered" /\ outcome.value.ok /\ outcome.value.quad # points

\* C7: ordering four points fails whenever two of them fall into the same
\* quadrant about their centroid, and a quadrilateral that is returned has
\* no missing corner and holds every one of the four input points.
C7_AmbiguousQuadrantFails ==
    pc = "ordered" =>
        /\ SharedQuadrant(variant, points) => (~outcome.value.ok /\ outcome.value.error = "array")
        /\ outcome.value.ok =>
              /\ \A k \in 1..4 : outcome.value.quad[k] # None
              /\ \A i \in 1..4 : \E k \in 1..4 : outcome.value.quad[k] = points[i]
              /\ ~SharedQuadrant(variant, points)

\* C7 witness: two of the four points shared a quadrant, the other points lay
\* in different ones, and the ordering failed.
C7_Witness ==
    /\ pc = "ordered"
    /\ SharedQuadrant(variant, points)
    /\ \A i, j \in 1..4 : i < j => points[i] # points[j]
    /\ ~outcome.value.ok

Identity3 == <<1, 0, 0, 0, 1, 0, 0, 0, 1>>

\* C1 (as claimed): for a transform file whose two matrices are invertible and
\* a point p of the rectified image, map_point(p) taken back through the
\* forward matrix is p.
C1_RoundTrip ==
    (/\ call.op = "map_point"
     /\ result.ok
     /\ Invertible(mapper.M)
     /\ Invertible(mapper.M_inv)
     /\ InRectified(mapper, call.args[1], call.args[2]))
        => ApplyHomography(mapper.M, result.value) = Pt(call.args[1], call.args[2])

\* C3 (as claimed): no transform is computed and written from a quadrilateral
\* whose area is at most the minimum of 1000.
C3_AreaPositivity ==
    record.kind = "file" =>
        PolygonArea2(record.data.source_points) > 2 * MinArea * record.data.den * record.data.den

\* C4 (as claimed): from the three points (0,0), (10,5), (0,10) the fourth
\* point inferred is (10,0), and the four points are ordered into a
\* quadrilateral of positive area.
C4_InferenceExample ==
    (/\ variant = "v2"
     /\ outcome.kind # "none"
     /\ outcome.input = <<<<0, 0>>, <<10, 5>>, <<0, 10>>>>)
        => /\ outcome.kind = "ok"
           /\ \E k \in 1..4 : outcome.value.source_points[k] = <<10 * outcome.value.den, 0>>
           /\ PolygonArea2(outcome.value.source_points) > 0

\* C5: map_rectangle returns the original rectangle as given and four points
\* that do not depend on which opposite corners were given in which order;
\* taken back through the forward matrix they are the top-left, top-right,
\* bottom-right and bottom-left corner of the min/max rectangle, and with
\* identity matrices map_rectangle(10,10,50,50) is (10,10),(50,10),(50,50),(10,50).
C5_RectangleOrientation ==
    call.op = "map_rectangle" =>
        /\ result.ok
        /\ result.value.type = "quadrilateral"
        /\ result.value.original = call.args
        /\ result.value.points =
              map_rectangle(mapper, call.args[3], call.args[4], call.args[1], call.args[2]).points
        /\ result.value.points =
              map_rectangle(mapper, call.args[3], call.args[2], call.args[1], call.args[4]).points
        /\ (Invertible(mapper.M) /\ Invertible(mapper.M_inv)
                /\ \A k \in 1..4 : result.value.points[k][3] # 0)
             => [k \in 1..4 |-> ApplyHomography(mapper.M, result.value.points[k])]
                  = <<Pt(Min2(call.args[1], call.args[3]), Min2(call.args[2], call.args[4])),
                      Pt(Max2(call.args[1], call.args[3]), Min2(call.args[2], call.args[4])),
                      Pt(Max2(call.args[1], call.args[3]), Max2(call.args[2], call.args[4])),
                      Pt(Min2(call.args[1], call.args[3]), Max2(call.args[2], call.args[4]))>>
        /\ (mapper.M_inv = Identity3 /\ call.args = <<10, 10, 50, 50>>)
             => result.value.points = <<Pt(10, 10), Pt(50, 10), Pt(50, 50), Pt(10, 50)>>

\* C5 witness: with identity matrices, a rectangle given by its bottom-right
\* and top-left corners was mapped, and the first point returned is the
\* top-left corner.
C5_Witness ==
    /\ call.op = "map_rectangle"
    /\ call.args = <<50, 50, 10, 10>>
    /\ mapper.M_inv = Identity3
    /\ result.value.points[1] = Pt(10, 10)

\* C6 (as claimed): a batch over one point, one rectangle and one entry of
\* unknown type maps 2 shapes and reports 1 skipped.
C6_BatchPartialFailure ==
    (/\ output.written
     /\ [k \in Idx(call.args.annotations) |-> call.args.annotations[k].type]
            = <<"point", "rectangle", "unknown">>)
        => /\ Len(output.output_data.annotations) = 2
           /\ output.reported.mapped = 2
           /\ "skipped" \in DOMAIN output.reported
           /\ output.reported.skipped = 1

\* C8 (as claimed): an attempt with fewer than 3 points, or with fewer than 3
\* points left after the 5px de-duplication, fails with an insufficient-points
\* error that reports the point count.
C8_InsufficientPoints ==
    (/\ outcome.kind # "none"
     /\ (Len(outcome.input) < 3 \/ Len(Dedup(outcome.input, <<>>)) < 3))
        => /\ outcome.kind = "error"
           /\ outcome.value.error \in {"need3", "dedup"}
           /\ outcome.value.count # <<>>

\* C9 (as claimed): map_point fails whenever the scale component of the
\* transformed point is zero, and returns no coordinates divided by it.
C9_ZeroScaleFails ==
    (/\ call.op = "map_point"
     /\ call.direction = "none"
     /\ Scale(mapper.M_inv, call.args[1], call.args[2]) = 0)
        => ~result.ok

\* C10 (as claimed): map_point with direction forward applies the forward
\* matrix and with direction reverse the inverse matrix.
C10_Direction ==
    (call.op = "map_point" /\ call.direction # "none")
        => /\ result.ok
           /\ result.value =
                 ApplyHomography(IF call.direction = "forward" THEN mapper.M ELSE mapper.M_inv,
                                 Pt(call.args[1], call.args[2]))

\* C12 (as claimed): the two matrices of a transform file that was written
\* are both non-singular, so that each is the inverse of the other; a
\* rectification whose matrix is singular writes no file.
C12_MutualInverse ==
    record.kind = "file" =>
        /\ ~SingularSystem(record.data.transform_matrix)
        /\ ~SingularSystem(record.data.inverse_matrix)

\* C13 (as claimed): every annotation written to the batch output carries a
\* mapped_shape field, whatever its type; the output names the transform file;
\* and no annotation of an unsupported type is written.
C13_MappedShape ==
    output.written =>
        /\ \A k \in Idx(output.output_data.annotations) :
              /\ "mapped_shape" \in DOMAIN output.output_data.annotations[k]
              /\ output.output_data.annotations[k].type \in SupportedTypes
        /\ "transform_file" \in DOMAIN output.output_data

\* C15: map_polygon returns as many vertices as it was given, in the same
\* order: the i-th vertex returned is map_point of the i-th vertex given (and,
\* where the matrices are invertible and the vertex is finite, the forward
\* matrix takes it back to the i-th vertex given), and the list given is
\* returned unchanged as the original.
C15_PolygonOrder ==
    call.op = "map_polygon" =>
        /\ result.ok
        /\ result.value.type = "polygon"
        /\ Len(result.value.points) = Len(call.args)
        /\ result.value.original = call.args
        /\ \A i \in Idx(call.args) :
              /\ result.value.points[i]
                    = map_point(mapper, Pt(call.args[i][1], call.args[i][2]))
              /\ (Invertible(mapper.M) /\ Invertible(mapper.M_inv)
                      /\ result.value.points[i][3] # 0)
                   => ApplyHomography(mapper.M, result.value.points[i])
                        = Pt(call.args[i][1], call.args[i][2])

\* C15 witness: a polygon of four vertices, one of them visited twice, was
\* mapped through a transform that is not the identity, and its second and
\* fourth vertex came out as different points.
C15_Witness ==
    /\ call.op = "map_polygon"
    /\ Len(call.args) = 4
    /\ call.args[1] = call.args[3]
    /\ mapper.M_inv # Identity3
    /\ Invertible(mapper.M_inv)
    /\ result.value.points[1] = result.value.points[3]
    /\ result.value.points[2] # result.value.points[4]

\* the point of the circle at k / n of a full turn
CircleAt(center_x, center_y, radius, k, n) ==
    ReducePt(<<1000 * center_x + radius * CosMilli((16 * k) \div n),
               1000 * center_y + radius * SinMilli((16 * k) \div n),
               1000>>)

\* C16: map_circle returns the mapped center and exactly num_points mapped
\* boundary points (16 where the batch leaves num_points out), the k-th being
\* the image of the circle point at angle 2*pi*k/num_points, k counted from 0;
\* the samples are those of evenly spaced angles, and no two of them are the
\* same point, so the end angle 2*pi does not repeat the first sample.
C16_CircleSamples ==
    /\ call.op = "map_circle" =>
          /\ result.ok
          /\ result.value.type = "ellipse"
          /\ result.value.center = map_point(mapper, Pt(call.args[1], call.args[2]))
          /\ Len(result.value.boundary_points) = call.args[4]
          /\ \A k \in 1..call.args[4] :
                result.value.boundary_points[k]
                    = map_point(mapper, CircleAt(call.args[1], call.args[2], call.args[3],
                                                 k - 1, call.args[4]))
          /\ Invertible(mapper.M_inv) =>
                \A j, k \in 1..call.args[4] :
                    (j # k /\ result.value.boundary_points[j][3] # 0)
                        => result.value.boundary_points[j] # result.value.boundary_points[k]
    /\ output.written =>
          \A k \in Idx(output.output_data.annotations) :
              output.output_data.annotations[k].type = "circle"
                  => Len(output.output_data.annotations[k].mapped_shape.boundary_points) = 16

\* C16 witness: a circle was sampled at 4 points through a transform that is
\* not the identity; the first sample is the image of the point at angle 0,
\* the third the image of the opposite point, and the last is not the first.
C16_Witness ==
    /\ call.op = "map_circle"
    /\ call.args = <<20, 20, 10, 4>>
    /\ mapper.M_inv # Identity3
    /\ Invertible(mapper.M_inv)
    /\ result.value.boundary_points[1] = map_point(mapper, Pt(30, 20))
    /\ result.value.boundary_points[3] = map_point(mapper, Pt(10, 20))
    /\ result.value.boundary_points[4] # result.value.boundary_points[1]

\* C19 (as claimed): for three distinct points sorted by ascending y into top,
\* middle, bottom, the inferred corner has the y of top; when top.x <= middle.x
\* it is (top.x + (bottom.x - middle.x), top.y) and does not lie to the left
\* of top, and otherwise it does not lie to the right of top.
C19_InferenceRule ==
    (/\ variant = "v2"
     /\ outcome.kind # "none"
     /\ Len(Dedup(outcome.input, <<>>)) = 3)
        => LET sorted_by_y == SortByY(Dedup(outcome.input, <<>>))
               top_pt == sorted_by_y[1]
               middle_pt == sorted_by_y[2]
               bottom_pt == sorted_by_y[3]
               inferred == InferredV2(top_pt, middle_pt, bottom_pt)
           IN  /\ inferred[2] = top_pt[2]
               /\ top_pt[1] <= middle_pt[1] =>
                     /\ inferred[1] = top_pt[1] + (bottom_pt[1] - middle_pt[1])
                     /\ inferred[1] >= top_pt[1]
               /\ top_pt[1] > middle_pt[1] => inferred[1] <= top_pt[1]

\* C20: a rectification attempt (key 'c') that fails writes no transform
\* file, leaves the marked points and the loop as they were, and shows the
\* user the error of that one run of rectify on the points as marked, with
\* no second run under another heuristic; and the transform file changes
\* only in an attempt that succeeded, to the data that attempt returned.
C20_FailureLeavesNoTrace ==
    [][/\ (outcome' # outcome /\ outcome'.kind = "error") =>
              /\ record' = record
              /\ points' = points
              /\ pc' = "annotating"
              /\ outcome'.input = points
              /\ ~outcome'.value.ok
              /\ \E choice \in Choices(variant, points) :
                     outcome'.value = rectify(variant, points, choice)
       /\ record' # record =>
              /\ outcome'.kind = "ok"
              /\ outcome'.input = points
              /\ outcome'.value.ok
              /\ record' = [kind |-> "file", data |-> outcome'.value]]_vars

\* C20 witness: four points were marked, two of them in one quadrant, the
\* attempt failed, the error is shown, the points are still there and no
\* transform file exists.
C20_Witness ==
    /\ outcome.kind = "error"
    /\ outcome.value.error = "array"
    /\ Len(points) = 4
    /\ outcome.input = points
    /\ record = NoRecord
    /\ pc = "annotating"

\* the size, the destination rectangle and the source quadrilateral of the
\* transform data d, under the field names of the script that wrote it
RecordedSize(d) ==
    IF "output_size" \in DOMAIN d THEN d.output_size ELSE d.rectified_size

DestinationRectangle(d) ==
    IF "matrix" \in DOMAIN d THEN d.matrix.dst.quad ELSE d.destination_points

SourceQuad(d) ==
    IF "source_pts" \in DOMAIN d THEN [quad |-> d.source_pts, den |-> 1]
    ELSE [quad |-> d.source_points, den |-> d.den]

\* W is the larger of the top-edge and bottom-edge lengths of src, rounded
\* (down) to an integer
LargerWidthRounded(W, src) ==
    LET larger2 == Max2(Dist2(src.quad[2], src.quad[1]), Dist2(src.quad[4], src.quad[3]))
    IN  /\ W >= 0
        /\ W * W * src.den * src.den <= larger2
        /\ larger2 < (W + 1) * (W + 1) * src.den * src.den

\* the destination rectangle of d is (0,0), (W,0), (W,H), (0,H) for the size
\* (W, H) recorded in d, and W is the larger width of the source, rounded
RectangleAsRecorded(d) ==
    /\ DestinationRectangle(d) =
          <<<<0, 0>>, <<RecordedSize(d)[1], 0>>,
            <<RecordedSize(d)[1], RecordedSize(d)[2]>>, <<0, RecordedSize(d)[2]>>>>
    /\ LargerWidthRounded(RecordedSize(d)[1], SourceQuad(d))

WellFormedMatrix(v) ==
    v.kind = "rows" /\ Len(v.rows) = 3 /\ \A i \in Idx(v.rows) : Len(v.rows[i]) = 3

WellFormedFile(data) ==
    /\ {"inverse_matrix", "transform_matrix", "rectified_size"} \subseteq DOMAIN data
    /\ WellFormedMatrix(data["inverse_matrix"])
    /\ WellFormedMatrix(data["transform_matrix"])
    /\ {"width", "height"} \subseteq DOMAIN data["rectified_size"]

\* C14 (as claimed): loading a transform file that lacks transform_matrix,
\* inverse_matrix or rectified_size, or that has a malformed matrix, fails and
\* leaves no mapper.
C14_CorruptFileFails ==
    (pc \in {"loaded", "crashed"} /\ ~WellFormedFile(record.data))
        => /\ pc = "crashed"
           /\ outcome.kind = "error"
           /\ mapper = NoMapper

\* the URL starts with /demo_data/
StartsWithDemoData(url) ==
    url.base = "" /\ Len(url.path) >= 2 /\ url.path[1] = Seg("demo_data")

\* C17 (as claimed): with DEMO_DATA_OSS_BASE not set, GET /cases (get_cases,
\* registered as /api/cases) answers with a list of cases, and every case in
\* it has a thumbnail URL that starts with /demo_data/.
C17_ThumbnailPrefix ==
    (/\ "method" \in DOMAIN call
     /\ call.method = "GET"
     /\ call.path \in {<<Seg("cases")>>, <<Seg("api"), Seg("cases")>>}
     /\ record.env.oss = "")
        => /\ result.status = 200
           /\ result.kind = "json"
           /\ \A k \in Idx(result.body) :
                 /\ "thumbnail" \in DOMAIN result.body[k]
                 /\ StartsWithDemoData(result.body[k].thumbnail)

\* C18 (as claimed): POST /analyze_demo with a case_id whose annotation JSON
\* and ortho image exist answers with status success, images.original
\* /demo_data/{case_id}.JPG and images.processed /demo_data/{case_id}_ortho.jpg.
C18_AnalyzeDemoImages ==
    (/\ "method" \in DOMAIN call
     /\ call.method = "POST"
     /\ call.path = <<Seg("analyze_demo")>>
     /\ JsonOf(record.env, call.case_id) = "shapes"
     /\ HasFile(record.env, call.case_id, "ortho"))
        => /\ result.status = 200
           /\ result.kind = "json"
           /\ result.body.status = "success"
           /\ result.body.images.original
                 = Url("", <<Seg("demo_data"), Name(call.case_id, ".JPG")>>)
           /\ result.body.images.processed
                 = Url("", <<Seg("demo_data"), Name(call.case_id, "_ortho.jpg")>>)

\* C21 (as claimed): in facade_rectification_v2.py an attempt on exactly
\* four marked points of which two lie closer than 5 pixels, so that three
\* distinct points remain, gives what the 3-point inference gives on those
\* three points.
C21_FourPointsDeduplicated ==
    (/\ variant = "v2"
     /\ outcome.kind # "none"
     /\ Len(outcome.input) = 4
     /\ Len(Dedup(outcome.input, <<>>)) = 3)
        => \E w \in WarpOutcomes :
              outcome.value =
                  TransformData("v2",
                      TargetRectangle(infer_4th_corner(Dedup(outcome.input, <<>>))), w)

\* C25: corner resolution ends for every list of at least 3 points: the
\* corner extraction re-enters itself at most once, and every call comes to
\* return a quadrilateral or to raise an error.
C25_Terminates ==
    /\ [](record.kind = "frame" => record.depth <= 1)
    /\ <>(pc \in {"returned", "raised"})

\* C25 witness: a call that re-entered the extraction with the de-duplicated
\* extreme points has ended.
C25_Witness ==
    /\ pc \in {"returned", "raised"}
    /\ outcome.depth = 1
    /\ Len(points) >= 5

\* two values of a corner resolver are the same: both are errors, or both
\* are quadrilaterals with the same corners (den is the denominator of the
\* coordinates)
SameCorners(r1, r2) ==
    IF r1.ok /\ r2.ok
    THEN /\ Len(r1.quad) = Len(r2.quad)
         /\ \A k \in Idx(r1.quad) : \A c \in 1..2 :
               r1.quad[k][c] * r2.den = r2.quad[k][c] * r1.den
    ELSE ~r1.ok /\ ~r2.ok

\* more than 4 points were marked, no two of them closer than 5 px, and the
\* call ended in its first activation, whose hull has n vertices
ResolvedHull(n) ==
    /\ pc \in {"returned", "raised"}
    /\ Len(points) > 4
    /\ Dedup(points, <<>>) = points
    /\ outcome.depth = 0
    /\ Len(outcome.hv) = n

\* C22 (as claimed): with more than 4 distinct points and a hull of 4
\* vertices the corners are the hull vertices as classified; with a hull of
\* 3 vertices they are what the 3-point inference rule makes of the three
\* vertices; a quadrilateral that is returned has four defined corners.
C22_SmallHull ==
    /\ ResolvedHull(4) =>
          SameCorners(outcome.value, order_points(variant, Take(points, outcome.hv)))
    /\ ResolvedHull(3) =>
          SameCorners(outcome.value,
                      order_points(variant, InferenceCorners(Take(points, outcome.hv))))
    /\ (ResolvedHull(3) \/ ResolvedHull(4)) /\ outcome.value.ok =>
          /\ Len(outcome.value.quad) = 4
          /\ \A k \in 1..4 : outcome.value.quad[k] # None

\* The call ended; more than 4 points were marked, no two of them closer
\* than 5 px; the hull had more than 4 vertices and the selection of the
\* extreme points (min-y, max-y, min-x, max-x, duplicates removed) left the
\* points ExtremesLeft.  facade_rectification.py re-enters the extraction
\* with them; facade_rectification_v2.py keeps them as selected_pts.
ExtremesLeft ==
    IF variant = "v1" THEN record.pts
    ELSE SelectedPts(Take(points, outcome.hv), outcome.hv, outcome.top4).pts

ExtremesSelected(n) ==
    /\ pc \in {"returned", "raised"}
    /\ Len(points) > 4
    /\ Dedup(points, <<>>) = points
    /\ IF variant = "v1" THEN outcome.depth = 1
       ELSE /\ Len(outcome.hv) > 4
            /\ SelectedPts(Take(points, outcome.hv), outcome.hv, outcome.top4).ok
    /\ Len(ExtremesLeft) = n

\* C23 (as claimed): when the extreme-point selection on a hull of more than
\* 4 vertices leaves 3 points, the corners are what the 3-point inference
\* rule makes of them; when it leaves 2 points the call fails with
\* DegenerateQuadrilateralError.
C23_FewExtremes ==
    /\ ExtremesSelected(3) =>
          SameCorners(outcome.value, order_points(variant, InferenceCorners(ExtremesLeft)))
    /\ ExtremesSelected(2) =>
          /\ ~outcome.value.ok
          /\ outcome.value.error = "degenerate"

\* C26 (as claimed): in select_best_corners on a hull of more than 4
\* vertices, every index in corner_candidates lies within hull_pts, and the
\* point read from hull_pts at it is an endpoint of one of the four longest
\* hull edges.
C26_CandidatesFromLongestEdges ==
    (/\ variant = "v2"
     /\ pc \in {"returned", "raised"}
     /\ Len(outcome.hv) > 4)
        => LET hull_pts == Take(Dedup(points, <<>>), outcome.hv)
               corner_candidates == CornerCandidates(outcome.hv, outcome.top4)
               endpoints ==
                   {hull_pts[idx] : idx \in outcome.top4}
                       \cup {hull_pts[(idx % Len(hull_pts)) + 1] : idx \in outcome.top4}
           IN  \A c \in corner_candidates :
                  /\ c \in Idx(hull_pts)
                  /\ hull_pts[c] \in endpoints

\* C24 (as claimed): in both scripts a point whose x equals the x of the
\* centroid is classified as left (tl or bl), and a point whose y equals the
\* y of the centroid is classified as top (tl or tr).
C24_TiesUpperLeft ==
    pc = "ordered" =>
        LET c == Center(points)
        IN  \A k \in 1..4 :
               /\ c.n * points[k][1] = c.sx =>
                     Quadrant(variant, points[k], c) \in {"tl", "bl"}
               /\ c.n * points[k][2] = c.sy =>
                     Quadrant(variant, points[k], c) \in {"tl", "tr"}

\* a call of facade_rectification_v2.py on three marked points, no two of
\* them closer than 5 px, has ended
ThreePointCall ==
    /\ variant = "v2"
    /\ pc \in {"returned", "raised"}
    /\ Len(points) = 3
    /\ Dedup(points, <<>>) = points

C29_EightPoints ==
    /\ [](variant = "ortho" => Len(points) <= OrthoPoints)
    /\ [][(OrthoRightClick /\ points = <<>>) => UNCHANGED vars]_vars
    /\ [][(outcome' # outcome \/ record' # record \/ pc' \in {"done", "crashed"}) =>
              /\ Len(points) = OrthoPoints
              /\ points' = points
              /\ outcome'.input = points
              /\ \E warp \in WarpOutcomes :
                     outcome'.value = OrthoTransformData(points, warp)]_vars

\* C29 witness: eight points were marked and the transform was computed
\* from them and written.
C29_Witness ==
    /\ variant = "ortho"
    /\ pc = "done"
    /\ Len(points) = OrthoPoints
    /\ outcome.input = points
    /\ record = [kind |-> "file", data |-> outcome.value]

\* C27 (as claimed): the transform file written by any of the three
\* rectifier scripts holds every field AnnotationMapper.__init__ reads, so
\* that the mapper loads from it without an exception.
C27_WrittenFileLoads ==
    record.kind = "file" =>
        LET file == TransformJson(variant, record.data)
        IN  /\ {"transform_matrix", "inverse_matrix", "rectified_size"} \subseteq DOMAIN file
            /\ {"width", "height"} \subseteq DOMAIN file["rectified_size"]
            /\ AnnotationMapperLoad(file).ok

\* the directory spa_fallback serves from: the built frontend if there is
\* one, else the public directory
ServedRoot(env) ==
    IF is_file(env.disk, FRONTEND_DIST_DIR \o <<"index.html">>)
    THEN FRONTEND_DIST_DIR ELSE PUBLIC_DIR

\* C28 (as claimed): a GET request answered by the SPA fallback is never
\* answered with a file outside the frontend build directory and the public
\* directory, and a path that resolves outside the served directory is
\* answered with an error, with or without a built frontend.
C28_NoPathTraversal ==
    (/\ "method" \in DOMAIN call
     /\ call.method = "GET"
     /\ Head(call.path) \notin {Seg("api"), Seg("demo_data")})
        => /\ result.kind = "file" =>
                 \/ IsUnder(result.file, FRONTEND_DIST_DIR)
                 \/ IsUnder(result.file, PUBLIC_DIR)
           /\ ~IsUnder(resolve(ServedRoot(record.env) \o lstrip(Texts(call.path))),
                       ServedRoot(record.env))
                 => result.kind = "error"
====
